---- MODULE Spec2Model ----
(***************************************************************************)
(* Model of the discovery-and-verification pipeline of the product         *)
(* research agent: AgentLoop.run and its helpers (agent_loop.py), the URL  *)
(* cleaner (url_cleaner.py) and the gate.  Text is modelled by TLA+        *)
(* strings, read as sequences of characters.                               *)
(***************************************************************************)
EXTENDS Integers, Sequences, FiniteSets, TLC

(***************************************************************************)
(* Strings (Python str operations used by the code)                        *)
(***************************************************************************)

\* s[i] as a one-character string (1-based)
Ch(s, i) == SubSeq(s, i, i)

\* s[i:] (1-based i)
From(s, i) == SubSeq(s, i, Len(s))

\* s[i-1:].startswith(p)
StartsWithAt(s, i, p) ==
    /\ i + Len(p) - 1 <= Len(s)
    /\ SubSeq(s, i, i + Len(p) - 1) = p

\* s.startswith(p)
StartsWith(s, p) == StartsWithAt(s, 1, p)

MinOf(S) == CHOOSE m \in S : \A n \in S : m <= n

MaxOf(S) == CHOOSE m \in S : \A n \in S : m >= n

\* s.find(p, i-1) + 1 : least index >= i where p occurs, 0 when there is none
FindFrom(s, p, i) ==
    LET hits == { j \in i..(Len(s) - Len(p) + 1) : StartsWithAt(s, j, p) }
    IN IF hits = {} THEN 0 ELSE MinOf(hits)

\* s.find(p) + 1
Find(s, p) == FindFrom(s, p, 1)

\* s.rfind(p) + 1 : greatest index where p occurs, 0 when there is none
RFind(s, p) ==
    LET hits == { j \in 1..(Len(s) - Len(p) + 1) : StartsWithAt(s, j, p) }
    IN IF hits = {} THEN 0 ELSE MaxOf(hits)

\* s.replace(old, new): every non-overlapping occurrence, left to right
RECURSIVE Replace(_, _, _)
Replace(s, old, new) ==
    LET i == Find(s, old) IN
    IF Len(old) = 0 \/ i = 0 THEN s
    ELSE SubSeq(s, 1, i - 1) \o new \o Replace(From(s, i + Len(old)), old, new)

\* s.rstrip(chars)
RStrip(s, chars) ==
    LET keep == { j \in 1..Len(s) : Ch(s, j) \notin chars }
    IN IF keep = {} THEN "" ELSE SubSeq(s, 1, MaxOf(keep))

\* s.lstrip(chars)
LStrip(s, chars) ==
    LET keep == { j \in 1..Len(s) : Ch(s, j) \notin chars }
    IN IF keep = {} THEN "" ELSE From(s, MinOf(keep))

\* s.split(sep) for a one-character separator
RECURSIVE Split(_, _)
Split(s, sep) ==
    LET i == Find(s, sep) IN
    IF i = 0 THEN <<s>>
    ELSE <<SubSeq(s, 1, i - 1)>> \o Split(From(s, i + 1), sep)

\* sep.join(parts)
RECURSIVE Join(_, _)
Join(parts, sep) ==
    IF Len(parts) = 0 THEN ""
    ELSE IF Len(parts) = 1 THEN parts[1]
    ELSE parts[1] \o sep \o Join(Tail(parts), sep)

UpperLetters == "ABCDEFGHIJKLMNOPQRSTUVWXYZ"
LowerLetters == "abcdefghijklmnopqrstuvwxyz"
Digits == "0123456789"

CharsOf(s) == { Ch(s, i) : i \in 1..Len(s) }

\* c.lower() for one character
LowerCh(c) ==
    LET i == Find(UpperLetters, c) IN
    IF i = 0 THEN c ELSE Ch(LowerLetters, i)

\* s.lower(), character by character
RECURSIVE Lower(_)
Lower(s) ==
    IF \A j \in 1..Len(s) : Ch(s, j) \notin CharsOf(UpperLetters) THEN s
    ELSE IF Len(s) = 1 THEN LowerCh(s)
    ELSE Lower(SubSeq(s, 1, Len(s) \div 2)) \o Lower(From(s, Len(s) \div 2 + 1))

(***************************************************************************)
(* urllib.parse as used by clean_url and the sanitizer                     *)
(***************************************************************************)

SchemeChars == CharsOf(LowerLetters) \cup CharsOf(UpperLetters)
                 \cup CharsOf(Digits) \cup {"+", "-", "."}

\* urllib.parse.uses_netloc and uses_params
UsesNetloc ==
    {"", "ftp", "http", "gopher", "nntp", "telnet", "imap", "wais", "file", "mms", "https", "shttp", "snews", "prospero", "rtsp", "rtsps", "rtspu", "rsync", "svn", "svn+ssh", "sftp", "nfs", "git", "git+ssh", "ws", "wss"}

UsesParams ==
    {"", "ftp", "hdl", "prospero", "http", "imap", "https", "shttp", "rtsp", "rtsps", "rtspu", "sip", "sips", "mms", "sftp", "tel"}

\* least index >= i of a character of set cs, Len(s)+1 when there is none
FindAnyFrom(s, cs, i) ==
    LET hits == { j \in i..Len(s) : Ch(s, j) \in cs }
    IN IF hits = {} THEN Len(s) + 1 ELSE MinOf(hits)

\* index of the ":" ending a valid scheme, 0 when url has no scheme
SchemeEnd(url) ==
    LET c == Find(url, ":") IN
    IF /\ c > 1
       /\ Ch(url, 1) \in CharsOf(LowerLetters) \cup CharsOf(UpperLetters)
       /\ \A i \in 1..(c - 1) : Ch(url, i) \in SchemeChars
    THEN c ELSE 0

\* urlparse, last step: ";params" is split off the last path segment
ParseParams(scheme, netloc, r, query, fragment) ==
    LET sl == RFind(r, "/")
        sc == FindFrom(r, ";", IF sl = 0 THEN 1 ELSE sl)
        split == scheme \in UsesParams /\ sc # 0
    IN [scheme |-> scheme, netloc |-> netloc,
        path |-> IF split THEN SubSeq(r, 1, sc - 1) ELSE r,
        params |-> IF split THEN From(r, sc + 1) ELSE "",
        query |-> query, fragment |-> fragment]

\* urlparse after the netloc: "#fragment", then "?query"
ParseQuery(scheme, netloc, r, fragment) ==
    LET q == Find(r, "?") IN
    ParseParams(scheme, netloc, IF q = 0 THEN r ELSE SubSeq(r, 1, q - 1),
                IF q = 0 THEN "" ELSE From(r, q + 1), fragment)

ParseFragment(scheme, netloc, r) ==
    LET h == Find(r, "#") IN
    ParseQuery(scheme, netloc, IF h = 0 THEN r ELSE SubSeq(r, 1, h - 1),
               IF h = 0 THEN "" ELSE From(r, h + 1))

\* urlparse after the scheme: "//netloc" up to the next "/", "?" or "#"
ParseNetloc(scheme, r) ==
    LET d == FindAnyFrom(r, {"/", "?", "#"}, 3) IN
    ParseFragment(scheme,
                  IF StartsWith(r, "//") THEN SubSeq(r, 3, d - 1) ELSE "",
                  IF StartsWith(r, "//") THEN From(r, d) ELSE r)

\* the url split at position c, the end of its scheme
ParseScheme(url, c) ==
    ParseNetloc(IF c = 0 THEN "" ELSE Lower(SubSeq(url, 1, c - 1)),
                IF c = 0 THEN url ELSE From(url, c + 1))

\* urlparse(url): scheme, netloc, path, params, query, fragment
UrlParse(url) == ParseScheme(url, SchemeEnd(url))

\* urlunparse((scheme, netloc, path, params, query, fragment))
UrlUnparse(p) ==
    LET u0 == IF p.params # "" THEN p.path \o ";" \o p.params ELSE p.path
        u1 == IF \/ p.netloc # ""
                 \/ (p.scheme # "" /\ p.scheme \in UsesNetloc /\ ~StartsWith(u0, "//"))
              THEN "//" \o p.netloc
                     \o (IF u0 # "" /\ ~StartsWith(u0, "/") THEN "/" ELSE "") \o u0
              ELSE u0
        u2 == IF p.scheme # "" THEN p.scheme \o ":" \o u1 ELSE u1
        u3 == IF p.query # "" THEN u2 \o "?" \o p.query ELSE u2
    IN IF p.fragment # "" THEN u3 \o "#" \o p.fragment ELSE u3

\* characters quote_plus leaves as they are
AlwaysSafe == CharsOf(LowerLetters) \cup CharsOf(UpperLetters)
                \cup CharsOf(Digits) \cup {"_", ".", "-", "~"}

\* "%XX" escapes of the reserved characters the model's texts can hold
PercentCode ==
    [c \in {"/", ":", "?", "=", "&", "#", "%", "+", ",", ";", "!"} |->
        CASE c = "/" -> "%2F" [] c = ":" -> "%3A" [] c = "?" -> "%3F"
          [] c = "=" -> "%3D" [] c = "&" -> "%26" [] c = "#" -> "%23"
          [] c = "%" -> "%25" [] c = "+" -> "%2B" [] c = "," -> "%2C"
          [] c = ";" -> "%3B" [] c = "!" -> "%21"]

\* quote_plus(c) for one character
QuoteCh(c) ==
    IF c \in AlwaysSafe THEN c
    ELSE IF c = " " THEN "+"
    ELSE IF c \in DOMAIN PercentCode THEN PercentCode[c]
    ELSE c

\* quote_plus(s), character by character
RECURSIVE QuotePlus(_)
QuotePlus(s) ==
    IF Len(s) = 0 THEN ""
    ELSE IF Len(s) = 1 THEN QuoteCh(s)
    ELSE QuotePlus(SubSeq(s, 1, Len(s) \div 2))
            \o QuotePlus(From(s, Len(s) \div 2 + 1))

\* the character a "%XX" escape at the head of s stands for, "" if none
EscapeAt(s) ==
    IF \E c \in DOMAIN PercentCode : StartsWith(s, PercentCode[c])
    THEN CHOOSE c \in DOMAIN PercentCode : StartsWith(s, PercentCode[c])
    ELSE ""

\* unquote(s.replace('+', ' ')), escape by escape
RECURSIVE UnquotePlus(_)
UnquotePlus(s) ==
    LET i == FindAnyFrom(s, {"+", "%"}, 1) IN
    IF i > Len(s) THEN s
    ELSE SubSeq(s, 1, i - 1)
           \o (IF Ch(s, i) = "+" THEN " " \o UnquotePlus(From(s, i + 1))
               ELSE IF EscapeAt(From(s, i)) # ""
               THEN EscapeAt(From(s, i)) \o UnquotePlus(From(s, i + 3))
               ELSE "%" \o UnquotePlus(From(s, i + 1)))

\* parse_qsl(query, keep_blank_values=True): the <<name, value>> pairs in order
RECURSIVE ParsePairs(_)
ParsePairs(fields) ==
    IF Len(fields) = 0 THEN <<>>
    ELSE LET nv == fields[1]
             e == Find(nv, "=")
             name == IF e = 0 THEN nv ELSE SubSeq(nv, 1, e - 1)
             value == IF e = 0 THEN "" ELSE From(nv, e + 1)
         IN (IF nv = "" THEN <<>>
             ELSE << <<UnquotePlus(name), UnquotePlus(value)>> >>)
              \o ParsePairs(Tail(fields))

ParseQsl(query) == ParsePairs(Split(query, "&"))

\* the keys of parse_qs(query) in dict (first insertion) order
RECURSIVE KeysInOrder(_, _)
KeysInOrder(pairs, seen) ==
    IF Len(pairs) = 0 THEN <<>>
    ELSE IF pairs[1][1] \in seen THEN KeysInOrder(Tail(pairs), seen)
    ELSE <<pairs[1][1]>> \o KeysInOrder(Tail(pairs), seen \cup {pairs[1][1]})

\* urlencode(d, doseq=True) for d = parse_qs(...) restricted to keys keep
RECURSIVE EncodeKey(_, _)
EncodeKey(key, pairs) ==
    IF Len(pairs) = 0 THEN <<>>
    ELSE (IF pairs[1][1] = key
          THEN <<QuotePlus(key) \o "=" \o QuotePlus(pairs[1][2])>>
          ELSE <<>>) \o EncodeKey(key, Tail(pairs))

RECURSIVE EncodeKeys(_, _)
EncodeKeys(keys, pairs) ==
    IF Len(keys) = 0 THEN <<>>
    ELSE EncodeKey(keys[1], pairs) \o EncodeKeys(Tail(keys), pairs)

UrlEncode(keys, pairs) == Join(EncodeKeys(keys, pairs), "&")

(***************************************************************************)
(* url_cleaner.clean_url                                                   *)
(***************************************************************************)

TRACKING_PARAMS ==
    {"utm_source", "utm_medium", "utm_campaign", "utm_term", "utm_content",
     "gclid", "fbclid", "msclkid", "twclid", "li_fat_id",
     "_ga", "_gid", "ref", "source", "affiliate_id"}

\* is_tracking of clean_url for one query key
IsTracking(key) ==
    LET key_lower == Lower(key) IN
    \/ key_lower \in TRACKING_PARAMS
    \/ StartsWith(key_lower, "utm_")
    \/ StartsWith(key_lower, "_ga")
    \/ key_lower \in {"gclid", "fbclid", "msclkid", "twclid"}

RECURSIVE DropTracking(_)
DropTracking(keys) ==
    IF Len(keys) = 0 THEN <<>>
    ELSE (IF IsTracking(keys[1]) THEN <<>> ELSE <<keys[1]>>)
           \o DropTracking(Tail(keys))

\* urlencode(cleaned_params, doseq=True) if cleaned_params else ""
CleanQuery(pairs) == UrlEncode(DropTracking(KeysInOrder(pairs, {})), pairs)

\* clean_url after urlparse
CleanParsed(parsed, remove_tracking) ==
    IF ~remove_tracking \/ parsed.query = ""
    THEN UrlUnparse([parsed EXCEPT !.fragment = ""])
    ELSE UrlUnparse([parsed EXCEPT !.query = CleanQuery(ParseQsl(parsed.query)),
                                   !.fragment = ""])

\* clean_url(url, remove_tracking)
clean_url(url, remove_tracking) ==
    IF url = "" THEN url ELSE CleanParsed(UrlParse(url), remove_tracking)

(***************************************************************************)
(* AgentLoop._sanitize_output                                              *)
(***************************************************************************)

\* characters the URL pattern r'https?://[^\s<>"\'\)]+' stops at
UrlStop == {" ", "\t", "\n", "\r", "\f", "<", ">", "\"", "'", ")"}

\* length of the prefix "http://" or "https://" at position i, 0 when neither
SchemeAt(s, i) ==
    IF StartsWithAt(s, i, "http://") THEN 7
    ELSE IF StartsWithAt(s, i, "https://") THEN 8
    ELSE 0

\* the pattern matches at position j
UrlAt(s, j) ==
    /\ SchemeAt(s, j) > 0
    /\ j + SchemeAt(s, j) <= Len(s)
    /\ Ch(s, j + SchemeAt(s, j)) \notin UrlStop

\* re.findall(url_pattern, answer) scanning from position i
RECURSIVE FindUrlsFrom(_, _)
FindUrlsFrom(s, i) ==
    LET starts == { j \in i..Len(s) : UrlAt(s, j) } IN
    IF starts = {} THEN <<>>
    ELSE LET j == MinOf(starts)
             e == FindAnyFrom(s, UrlStop, j + SchemeAt(s, j))
         IN <<SubSeq(s, j, e - 1)>> \o FindUrlsFrom(s, e)

urls_found(answer) == FindUrlsFrom(answer, 1)

TrailingPunct == {".", ",", ";", "!", "?", ")"}

\* clean_url(url.rstrip('.,;!?)'), remove_tracking=True)
Normalized(url) == clean_url(RStrip(url, TrailingPunct), TRUE)

Marker == "[URL removed - not verified]"

\* the keys of verified_url_set in the set's iteration order
IterOrder(V, order) == SelectSeq(order, LAMBDA v : v \in V)

\* what an unverified URL is replaced by: the first verified URL of the
\* iteration with netloc = domain, the marker when there is none
Replacement(domain, V, order) ==
    LET same == SelectSeq(IterOrder(V, order),
                          LAMBDA v : UrlParse(v).netloc = domain)
    IN IF Len(same) > 0 THEN same[1] ELSE Marker

\* the body of "for url in urls_found", normalized = clean_url(url.rstrip(..))
SanitizeUrl(answer, url, normalized, V, order) ==
    IF normalized \in V THEN answer
    ELSE Replace(answer, url, Replacement(UrlParse(normalized).netloc, V, order))

\* one iteration of "for url in urls_found"
SanitizeStep(answer, url, V, order) ==
    SanitizeUrl(answer, url, Normalized(url), V, order)

RECURSIVE SanitizeLoop(_, _, _, _)
SanitizeLoop(answer, urls, V, order) ==
    IF Len(urls) = 0 THEN answer
    ELSE SanitizeLoop(SanitizeStep(answer, urls[1], V, order),
                      Tail(urls), V, order)

\* _sanitize_output(answer, verified_urls), V = set(verified_urls.keys())
_sanitize_output(answer, V, order) ==
    SanitizeLoop(answer, urls_found(answer), V, order)

(***************************************************************************)
(* Python values                                                           *)
(***************************************************************************)

\* None; also the value of a non-string verdict
None == "None"

\* bool(v) for v a str or None
Truthy(v) == v # None /\ v # ""

\* d.get(k, default) and d.get(k)
Get(d, k, default) == IF k \in DOMAIN d THEN d[k] ELSE default

GetOrNone(d, k) == Get(d, k, None)

\* d[k] = v on a dict held as a record
Put(d, k, v) == (k :> v) @@ d

Range(s) == { s[i] : i \in 1..Len(s) }

\* the empty dict {}
EmptyDict == [k \in {} |-> None]

\* An insertion-ordered dict: a sequence of <<key, value>> with distinct keys
DictKeys(d) == { d[i][1] : i \in 1..Len(d) }

DictIndex(d, k) == CHOOSE i \in 1..Len(d) : d[i][1] = k

DictGet(d, k) == d[DictIndex(d, k)][2]

\* d[k] = v: an existing key keeps its position
DictPut(d, k, v) ==
    IF k \in DictKeys(d)
    THEN [d EXCEPT ![DictIndex(d, k)] = <<k, v>>]
    ELSE Append(d, <<k, v>>)

(***************************************************************************)
(* html_extract.extract_text and sku_extract.extract_sku                   *)
(***************************************************************************)

MAX_PAGE_TEXT_LENGTH == 20000

Whitespace == {" ", "\t", "\n", "\r", "\f"}

\* s.strip()
Strip(s) == LStrip(RStrip(s, Whitespace), Whitespace)

\* soup.get_text(separator=" ", strip=True): the text nodes outside tags
RECURSIVE TextNodes(_)
TextNodes(html) ==
    LET lt == Find(html, "<")
        gt == IF lt = 0 THEN 0 ELSE FindFrom(html, ">", lt)
        node == Strip(IF lt = 0 THEN html ELSE SubSeq(html, 1, lt - 1))
        here == IF node = "" THEN <<>> ELSE <<node>>
    IN IF html = "" THEN <<>>
       ELSE IF lt = 0 \/ gt = 0 THEN here
       ELSE here \o TextNodes(From(html, gt + 1))

\* extract_text(html): the BeautifulSoup path, truncated to max_length
extract_text(html) ==
    IF html = "" THEN ""
    ELSE LET text == Join(TextNodes(html), " ") IN
         IF Len(text) > MAX_PAGE_TEXT_LENGTH
         THEN SubSeq(text, 1, MAX_PAGE_TEXT_LENGTH) \o "... [truncated]"
         ELSE text

\* the character class [a-z0-9\-] of the SKU patterns
SkuChars == CharsOf(LowerLetters) \cup CharsOf(Digits) \cup {"-"}

\* the ASCII keywords of sku_patterns, in order
sku_patterns == <<"sku", "article", "artikul">>

\* least j >= i with s[j] not in cs, Len(s)+1 when there is none
SkipWhile(s, cs, i) ==
    LET stops == { j \in i..Len(s) : Ch(s, j) \notin cs }
    IN IF stops = {} THEN Len(s) + 1 ELSE MinOf(stops)

\* re.search(kw + r'[:\s]+([a-z0-9\-]+)', s) from position i: group(1) or None
RECURSIVE SearchSku(_, _, _)
SearchSku(s, kw, i) ==
    LET k == FindFrom(s, kw, i)
        a == k + Len(kw)
        b == SkipWhile(s, Whitespace \cup {":"}, a)
        c == SkipWhile(s, SkuChars, b)
    IN IF k = 0 THEN None
       ELSE IF b > a /\ c > b THEN SubSeq(s, b, c - 1)
       ELSE SearchSku(s, kw, k + 1)

RECURSIVE FirstSku(_, _)
FirstSku(text_lower, patterns) ==
    IF Len(patterns) = 0 THEN None
    ELSE LET m == SearchSku(text_lower, patterns[1], 1) IN
         IF m # None THEN m ELSE FirstSku(text_lower, Tail(patterns))

\* extract_sku(html, text) for pages without JSON-LD, meta or microdata SKU
extract_sku(html, text) ==
    IF html = "" THEN None ELSE FirstSku(Lower(text), sku_patterns)

(***************************************************************************)
(* cache.Cache: a store from key to value                                  *)
(***************************************************************************)

MaxKeyLen == 100

\* hashlib.md5(s).hexdigest(), kept as an uninterpreted digest of s
Md5Hex(s) == "md5<" \o s \o ">"

\* Cache._make_key(prefix, identifier)
_make_key(prefix, identifier) ==
    LET normalized == Lower(Strip(identifier)) IN
    prefix \o ":" \o (IF Len(normalized) > MaxKeyLen THEN Md5Hex(normalized)
                      ELSE normalized)

\* Cache.get_search / get_fetch / get_render return a stored value
cache_has(store, prefix, identifier) == _make_key(prefix, identifier) \in DOMAIN store

\* Cache.get_search / get_fetch / get_render: the stored value
cache_get(store, prefix, identifier) == store[_make_key(prefix, identifier)]

\* Cache.set_search / set_fetch / set_render
cache_set(store, prefix, identifier, value) ==
    Put(store, _make_key(prefix, identifier), value)

\* config.SEARCH_CACHE_TTL and config.FETCH_CACHE_TTL, in seconds
SEARCH_CACHE_TTL == 86400

FETCH_CACHE_TTL == 604800

ExpireOneDay(prefix) == SEARCH_CACHE_TTL

\* the expire= argument of set_search, set_fetch and set_render
Expire(prefix) ==
    IF prefix = "search" THEN SEARCH_CACHE_TTL ELSE FETCH_CACHE_TTL

\* set_search / set_fetch / set_render at time now: diskcache keeps the value
\* with the time at which it expires
cache_set_at(store, prefix, identifier, value, now) ==
    Put(store, _make_key(prefix, identifier),
        [value |-> value, expire_time |-> now + Expire(prefix)])

\* get_search / get_fetch / get_render at time now: diskcache returns the
\* value of an entry that has not expired, None otherwise
cache_get_at(store, prefix, identifier, now) ==
    LET key == _make_key(prefix, identifier) IN
    IF key \in DOMAIN store /\ store[key].expire_time > now
    THEN store[key].value
    ELSE None

(***************************************************************************)
(* AgentLoop._is_good_url                                                  *)
(***************************************************************************)

PageVerdict ==
    {"product", "listing_with_products", "listing_empty", "blocked",
     "generic", "error"}

\* PageVerdict(verdict_str) if it is a str, ERROR on ValueError
ToVerdict(verdict_str) ==
    IF verdict_str = None THEN verdict_str
    ELSE IF verdict_str \in PageVerdict THEN verdict_str
    ELSE "error"

generic_paths == <<"/", "/home", "/index", "/search", "/category">>

\* the generic test without the sub-paths
IsGenericExact(path_lower) == path_lower \in Range(generic_paths)

IsGenericPath(path_lower) ==
    \E i \in 1..Len(generic_paths) :
        \/ path_lower = generic_paths[i]
        \/ StartsWith(path_lower, generic_paths[i] \o "/")

\* the gate with the status test "200 <= status <= 300"
GoodThrough300(status, final_url, verdict) ==
    /\ 200 <= status /\ status <= 300
    /\ verdict \in {"product", "listing_with_products"}

\* the gate rejecting only blocked and error pages
GoodUnlessBlocked(status, final_url, verdict) ==
    /\ 200 <= status /\ status < 300
    /\ verdict \notin {"blocked", "error"}

\* _is_good_url(status, final_url, verdict, classification)
_is_good_url(status, final_url, verdict) ==
    IF ~(200 <= status /\ status < 300) THEN FALSE
    ELSE IF /\ IsGenericPath(Lower(UrlParse(final_url).path))
            /\ verdict \notin {"product", "listing_with_products"}
         THEN FALSE
    ELSE IF verdict \in {"blocked", "listing_empty", "generic", "error"} THEN FALSE
    ELSE IF verdict \in {"product", "listing_with_products"} THEN TRUE
    ELSE FALSE

(***************************************************************************)
(* page_classifier.classify_page                                           *)
(*                                                                         *)
(* html is held as the sequence of the elements BeautifulSoup(html,        *)
(* "lxml") finds in it, in document order; the empty string has none.      *)
(* An element carries the attributes the classifier reads ("" or <<>> when *)
(* absent, which .get's defaults make indistinguishable), its string and,  *)
(* as parent_class, the classes of its ancestors up to three levels.       *)
(***************************************************************************)

\* the classification dict: verdict, product_count and reason
Cls(verdict, count, reason) ==
    [verdict |-> verdict, product_count |-> count, reason |-> reason]

Tag(name) ==
    [name |-> name, type |-> "", itemtype |-> "", href |-> "", class |-> <<>>,
     id |-> "", action |-> "", http_equiv |-> "", string |-> "",
     parent_class |-> ""]

\* sub in s
Contains(s, sub) == Find(s, sub) # 0

\* any(keyword in s for keyword in keywords)
ContainsAny(s, keywords) == \E keyword \in keywords : Contains(s, keyword)

\* json.loads(s) on the JSON-LD texts of the model's pages: a dict, a list of
\* dicts, or JSONDecodeError
JsonLoads(s) ==
    CASE s = "{\"@type\": \"Product\"}"
            -> [kind |-> "dict", value |-> [type |-> "Product"]]
      [] s = "{\"@type\": \"Offer\"}"
            -> [kind |-> "dict", value |-> [type |-> "Offer"]]
      [] s = "[{\"@type\": \"Product\"}]"
            -> [kind |-> "list", value |-> <<[type |-> "Product"]>>]
      [] OTHER -> [kind |-> "raises", value |-> <<>>]

\* soup.find_all("script", type="application/ld+json")
json_ld_scripts(html) ==
    SelectSeq(html, LAMBDA el : el.name = "script" /\ el.type = "application/ld+json")

\* what one JSON-LD script adds to json_ld_count: the list branch hangs off
\* the inner if, so it is only reached with a dict and adds nothing
JsonLdCount(data) ==
    IF data.kind = "dict"
    THEN IF data.value.type = "Product" THEN 1
         ELSE IF data.kind = "list"
         THEN Len(SelectSeq(data.value, LAMBDA item : item.type = "Product"))
         ELSE 0
    ELSE 0

RECURSIVE SumOf(_)
SumOf(counts) ==
    IF Len(counts) = 0 THEN 0 ELSE Head(counts) + SumOf(Tail(counts))

\* soup.find_all(attrs={"itemtype": re.compile(r".*Product", re.I)})
microdata_products(html) ==
    SelectSeq(html, LAMBDA el : Contains(Lower(el.itemtype), "product"))

IsDigits(s, i, j) == \A k \in i..j : Ch(s, k) \in CharsOf(Digits)

\* re.search(r"-\d+\.html", s)
DashDigitsHtml(s) ==
    \E i \in 1..Len(s), j \in 1..Len(s) :
        /\ i < j
        /\ Ch(s, i) = "-"
        /\ IsDigits(s, i + 1, j)
        /\ StartsWithAt(s, j + 1, ".html")

\* re.search(r"/\d+$", s): "$" is the end, or the place before a final newline
SlashDigitsEnd(s) ==
    LET end == IF Len(s) > 0 /\ Ch(s, Len(s)) = "\n" THEN Len(s) - 1 ELSE Len(s)
    IN \E i \in 1..Len(s) :
        i < end /\ Ch(s, i) = "/" /\ IsDigits(s, i + 1, end)

\* any(re.search(pattern, href_lower) for pattern in product_link_patterns)
product_link_patterns(href_lower) ==
    \/ ContainsAny(href_lower, {"/product/", "/p/", "/item/", "/detail/", "/buy/"})
    \/ DashDigitsHtml(href_lower)
    \/ SlashDigitsEnd(href_lower)

\* re.search(r"[\d,]+\.?\d*\s*(usd|eur|bgn|uah|rub|...|$|...)", link_text) on
\* ASCII text: digits and commas from i to j, an optional ".", digits up to
\* k, whitespace up to m, then a currency code or, for the unescaped "$",
\* the end of the text
PriceLike(link_text) ==
    \E i \in 1..Len(link_text), j \in 1..Len(link_text) :
        /\ i <= j
        /\ \A n \in i..j : Ch(link_text, n) \in CharsOf(Digits) \cup {","}
        /\ \E dot \in {0, 1}, k \in j..Len(link_text), m \in j..Len(link_text) :
            /\ dot = 1 => StartsWithAt(link_text, j + 1, ".")
            /\ j + dot <= k
            /\ IsDigits(link_text, j + dot + 1, k)
            /\ k <= m
            /\ \A n \in (k + 1)..m : Ch(link_text, n) \in Whitespace
            /\ \/ m = Len(link_text)
               \/ m + 1 = Len(link_text) /\ Ch(link_text, m + 1) = "\n"
               \/ \E code \in {"usd", "eur", "bgn", "uah", "rub"} :
                    StartsWithAt(link_text, m + 1, code)

\* one <a href=...> of all_links counts as a product link
IsProductLink(link) ==
    /\ link.name = "a"
    /\ link.href # ""
    /\ \/ product_link_patterns(Lower(link.href))
       \/ Range(link.class) \cap {"product", "item", "card"} # {}
       \/ PriceLike(Lower(Strip(link.string)))

\* the total count without the branch for three product links or more
ProductCountNoThreshold(json_ld_count, microdata_count, product_links) ==
    IF json_ld_count > 0 \/ microdata_count > 0
    THEN (IF json_ld_count >= microdata_count THEN json_ld_count
          ELSE microdata_count)
    ELSE IF product_links > 0 THEN 1
    ELSE 0

\* the total count of _detect_products: schema first, then links
ProductCount(json_ld_count, microdata_count, product_links) ==
    IF json_ld_count > 0 \/ microdata_count > 0
    THEN (IF json_ld_count >= microdata_count THEN json_ld_count
          ELSE microdata_count)
    ELSE IF product_links >= 3 THEN product_links
    ELSE IF product_links > 0 THEN 1
    ELSE 0

DetectedProducts(json_ld_count, microdata_count, product_links) ==
    [count |-> ProductCount(json_ld_count, microdata_count, product_links),
     json_ld_count |-> json_ld_count,
     microdata_count |-> microdata_count,
     product_links_count |-> product_links]

\* _detect_products(html, text, url)
_detect_products(html, text, url) ==
    IF Len(html) = 0 THEN DetectedProducts(0, 0, 0)
    ELSE DetectedProducts(
            SumOf([i \in 1..Len(json_ld_scripts(html)) |->
                     JsonLdCount(JsonLoads(json_ld_scripts(html)[i].string))]),
            Len(microdata_products(html)),
            Len(SelectSeq(html, IsProductLink)))

\* _has_product_signals(html, text)
_has_product_signals(html, text) == _detect_products(html, text, "").count > 0

listing_indicators ==
    {"/search", "/category", "/catalog", "/c/", "/list", "/category/", "/shop/",
     "/products", "/items", "?q=", "?search=", "?category=", "?filter=", "/l/"}

\* _is_listing_url(url)
_is_listing_url(url) ==
    \E indicator \in listing_indicators :
        \/ Contains(Lower(UrlParse(url).path), indicator)
        \/ Contains(Lower(UrlParse(url).query), indicator)

\* " ".join(el.get("class", [])).lower()
ClassLower(el) == Lower(Join(el.class, " "))

NotBlocked == [is_blocked |-> FALSE, reason |-> ""]

Blocked(reason) == [is_blocked |-> TRUE, reason |-> reason]

\* _detect_blocked once text_length = len(text.strip()) is known
DetectBlocked(html, text_length) ==
    IF /\ text_length < 200
       /\ \E i \in 1..Len(html) :
            /\ html[i].name \in {"form", "div"}
            /\ ContainsAny(ClassLower(html[i]),
                           {"captcha", "verify", "block", "access", "gate",
                            "challenge"})
    THEN Blocked("Low content with blocking elements detected")
    ELSE IF \E i \in 1..Len(html) :
            /\ html[i].name = "form"
            /\ \E keyword \in {"captcha", "verify", "challenge", "recaptcha",
                               "hcaptcha"} :
                \/ Contains(Lower(html[i].action), keyword)
                \/ Contains(Lower(html[i].id), keyword)
                \/ Contains(ClassLower(html[i]), keyword)
    THEN Blocked("Captcha/verification form detected")
    ELSE IF /\ \E i \in 1..Len(html) :
                /\ html[i].name = "meta"
                /\ Contains(Lower(html[i].http_equiv), "refresh")
            /\ text_length < 500
    THEN Blocked("Meta refresh with low content (likely interstitial)")
    ELSE IF /\ text_length < 300
            /\ Len(SelectSeq(html, LAMBDA el : el.name = "script")) > 5
            /\ text_length < 200
    THEN Blocked("Low content with excessive scripts (likely blocking page)")
    ELSE NotBlocked

\* _detect_blocked(html, text)
_detect_blocked(html, text) ==
    IF Len(html) = 0 THEN NotBlocked ELSE DetectBlocked(html, Len(Strip(text)))

(***************************************************************************)
(* page_classifier._extract_product_candidate_links                        *)
(***************************************************************************)

\* urllib.parse.uses_relative
UsesRelative ==
    {"", "ftp", "http", "gopher", "nntp", "imap", "wais", "file", "https",
     "shttp", "mms", "prospero", "rtsp", "rtsps", "rtspu", "sftp", "svn",
     "svn+ssh", "ws", "wss"}

\* urljoin: segments[1:-1] = filter(None, segments[1:-1])
FilterMiddle(segments) ==
    IF Len(segments) <= 2 THEN segments
    ELSE <<segments[1]>>
            \o SelectSeq(SubSeq(segments, 2, Len(segments) - 1),
                         LAMBDA seg : seg # "")
            \o <<segments[Len(segments)]>>

\* urljoin: the loop that resolves "." and ".." segments
RECURSIVE ResolveSegments(_, _, _)
ResolveSegments(segments, i, resolved_path) ==
    IF i > Len(segments) THEN resolved_path
    ELSE IF segments[i] = ".."
    THEN ResolveSegments(segments, i + 1,
            IF Len(resolved_path) = 0 THEN resolved_path
            ELSE SubSeq(resolved_path, 1, Len(resolved_path) - 1))
    ELSE IF segments[i] = "."
    THEN ResolveSegments(segments, i + 1, resolved_path)
    ELSE ResolveSegments(segments, i + 1, Append(resolved_path, segments[i]))

\* urljoin: '/'.join(resolved_path) or '/' for the segments to resolve
ResolvedPath(segments) ==
    LET resolved_path == ResolveSegments(segments, 1, <<>>)
        closed == IF segments[Len(segments)] \in {".", ".."}
                  THEN Append(resolved_path, "") ELSE resolved_path
    IN IF Join(closed, "/") = "" THEN "/" ELSE Join(closed, "/")

\* urljoin: the path of the joined URL for a non-empty relative path
JoinPath(bpath, path) ==
    LET base_parts == Split(bpath, "/")
        dirs == IF base_parts[Len(base_parts)] # ""
                THEN SubSeq(base_parts, 1, Len(base_parts) - 1)
                ELSE base_parts
    IN IF StartsWith(path, "/") THEN ResolvedPath(Split(path, "/"))
       ELSE ResolvedPath(FilterMiddle(dirs \o Split(path, "/")))

\* urljoin once base and url are parsed, url with the base's scheme as default
JoinParsed(b, u, url) ==
    IF u.scheme # b.scheme \/ u.scheme \notin UsesRelative THEN url
    ELSE IF u.scheme \in UsesNetloc /\ u.netloc # "" THEN UrlUnparse(u)
    ELSE IF u.path = "" /\ u.params = ""
    THEN UrlUnparse([u EXCEPT !.netloc = b.netloc, !.path = b.path,
                              !.params = b.params,
                              !.query = IF u.query = "" THEN b.query
                                        ELSE u.query])
    ELSE UrlUnparse([u EXCEPT !.netloc = b.netloc,
                              !.path = JoinPath(b.path, u.path)])

\* urlparse(url, bscheme)
UrlParseDefault(url, bscheme) ==
    IF UrlParse(url).scheme = "" THEN [UrlParse(url) EXCEPT !.scheme = bscheme]
    ELSE UrlParse(url)

\* urllib.parse.urljoin(base, url)
urljoin(base, url) ==
    IF base = "" THEN url
    ELSE IF url = "" THEN base
    ELSE JoinParsed(UrlParse(base),
                    UrlParseDefault(url, UrlParse(base).scheme), url)

\* where "$" matches: at the end and before a final newline
Ends(s) ==
    {Len(s)} \cup (IF Len(s) > 0 /\ Ch(s, Len(s)) = "\n" THEN {Len(s) - 1} ELSE {})

\* s[i..j] is non-empty and has no "/": [^/]+
NoSlash(s, i, j) == i <= j /\ j <= Len(s) /\ \A k \in i..j : Ch(s, k) # "/"

\* s[i..j] is one digit or more: \d+
SomeDigits(s, i, j) == i <= j /\ j <= Len(s) /\ IsDigits(s, i, j)

\* re.search(prefix + r"[^/]+", s)
PrefixThenSlug(s, prefix) ==
    \E i \in 1..Len(s) :
        /\ StartsWithAt(s, i, prefix)
        /\ NoSlash(s, i + Len(prefix), i + Len(prefix))

\* re.search(prefix + r"\d+", s)
PrefixThenDigits(s, prefix) ==
    \E i \in 1..Len(s) :
        /\ StartsWithAt(s, i, prefix)
        /\ SomeDigits(s, i + Len(prefix), i + Len(prefix))

\* re.search(r"/auto_[^/]+\.html$", s)
AutoHtml(s) ==
    \E i \in 1..Len(s), e \in Ends(s) :
        /\ StartsWithAt(s, i, "/auto_")
        /\ NoSlash(s, i + 6, e - 5)
        /\ StartsWithAt(s, e - 4, ".html")

\* re.search(r"/auto_[^/]+/\d+\.html$", s)
AutoDirHtml(s) ==
    \E i \in 1..Len(s), j \in 1..Len(s), e \in Ends(s) :
        /\ StartsWithAt(s, i, "/auto_")
        /\ NoSlash(s, i + 6, j - 1)
        /\ Ch(s, j) = "/"
        /\ SomeDigits(s, j + 1, e - 5)
        /\ StartsWithAt(s, e - 4, ".html")

\* re.search(r"/product/[^/]+/\d+", s)
ProductSlugId(s) ==
    \E i \in 1..Len(s), j \in 1..Len(s) :
        /\ StartsWithAt(s, i, "/product/")
        /\ NoSlash(s, i + 9, j - 1)
        /\ Ch(s, j) = "/"
        /\ SomeDigits(s, j + 1, j + 1)

\* re.search(r"/\d{6,}$", s)
SixDigitsEnd(s) ==
    \E i \in 1..Len(s), e \in Ends(s) :
        /\ Ch(s, i) = "/"
        /\ e - i >= 6
        /\ IsDigits(s, i + 1, e)

\* any(re.search(pattern, path_lower) for pattern in strict_allowlist_patterns)
strict_allowlist_patterns(path_lower) ==
    \/ AutoHtml(path_lower)
    \/ AutoDirHtml(path_lower)
    \/ ProductSlugId(path_lower)
    \/ PrefixThenSlug(path_lower, "/p/")
    \/ PrefixThenDigits(path_lower, "/item/")
    \/ PrefixThenDigits(path_lower, "/detail/")
    \/ PrefixThenSlug(path_lower, "/products/")
    \/ SixDigitsEnd(path_lower)

\* re.search(r"/car/[^/]+$", s) or re.search(r"/car/[^/]+/[^/]+$", s)
CarListing(s) ==
    \E i \in 1..Len(s), e \in Ends(s) :
        /\ StartsWithAt(s, i, "/car/")
        /\ \/ NoSlash(s, i + 5, e)
           \/ \E j \in 1..Len(s) :
                /\ NoSlash(s, i + 5, j - 1)
                /\ Ch(s, j) = "/"
                /\ NoSlash(s, j + 1, e)

\* the blocklist without its two /car/ patterns
BlocklistNoCar(path_lower) ==
    ContainsAny(path_lower, {"/search", "/category", "/catalog", "/filter",
                             "/all", "/list", "/results"})

\* any(re.search(pattern, path_lower) for pattern in blocklist_patterns)
blocklist_patterns(path_lower) ==
    \/ ContainsAny(path_lower, {"/search", "/category", "/catalog", "/filter",
                                "/all", "/list", "/results"})
    \/ CarListing(path_lower)

\* the tests an absolute URL passes to be a candidate: lines 207-225
KeepAbsolute(parsed, base_domain) ==
    /\ parsed.scheme \in {"http", "https"}
    /\ Lower(parsed.netloc) = base_domain
    /\ strict_allowlist_patterns(Lower(parsed.path))
    /\ ~blocklist_patterns(Lower(parsed.path))

\* one <a href=...> of all_links is kept: lines 199-225
KeepLink(link, base_url, base_domain) ==
    /\ link.name = "a"
    /\ Strip(link.href) # ""
    /\ ~StartsWith(Strip(link.href), "#")
    /\ ~StartsWith(Strip(link.href), "javascript:")
    /\ KeepAbsolute(UrlParse(urljoin(base_url, Strip(link.href))), base_domain)

\* "if normalized not in seen_urls": the first occurrence of each URL, in order
RECURSIVE Unseen(_, _, _)
Unseen(urls, i, candidates) ==
    IF i > Len(urls) THEN candidates
    ELSE IF \E k \in 1..Len(candidates) : candidates[k] = urls[i]
    THEN Unseen(urls, i + 1, candidates)
    ELSE Unseen(urls, i + 1, Append(candidates, urls[i]))

\* candidates[:50]
MaxCandidates == 50

CapCandidates(candidates) ==
    IF Len(candidates) > MaxCandidates THEN SubSeq(candidates, 1, MaxCandidates)
    ELSE candidates

\* the normalized URLs of the links kept, in document order
NormalizedLinks(kept, base_url) ==
    [i \in 1..Len(kept) |->
        clean_url(urljoin(base_url, Strip(kept[i].href)), TRUE)]

\* _extract_product_candidate_links(html, base_url); the container test of
\* lines 227-236 sets in_product_container, which nothing reads
_extract_product_candidate_links(html, base_url) ==
    IF Len(html) = 0 THEN <<>>
    ELSE CapCandidates(Unseen(
            NormalizedLinks(
                SelectSeq(html, LAMBDA link :
                    KeepLink(link, base_url, Lower(UrlParse(base_url).netloc))),
                base_url),
            1, <<>>))

\* the final table with the page without schema reported as it was counted
ClassifiedAsCounted(product_count, is_listing_url, text) ==
    IF product_count > 0
    THEN IF is_listing_url
         THEN Cls("listing_with_products", product_count,
                  "Listing page with " \o ToString(product_count)
                    \o " products detected")
         ELSE Cls("product", product_count, "Product page detected")
    ELSE IF is_listing_url
    THEN Cls("listing_empty", 0, "Listing/search page with no products")
    ELSE IF Len(text) > 500
    THEN Cls("product", 0, "Potential product page (no schema but has content)")
    ELSE Cls("error", 0, "Page has insufficient content")

\* the final table of classify_page
Classified(product_count, is_listing_url, text) ==
    IF product_count > 0
    THEN IF is_listing_url
         THEN Cls("listing_with_products", product_count,
                  "Listing page with " \o ToString(product_count)
                    \o " products detected")
         ELSE Cls("product", product_count, "Product page detected")
    ELSE IF is_listing_url
    THEN Cls("listing_empty", 0, "Listing/search page with no products")
    ELSE IF Len(text) > 500
    THEN Cls("product", 1, "Potential product page (no schema but has content)")
    ELSE Cls("error", 0, "Page has insufficient content")

\* classify_page(html, text, url): verdict, product_count and reason
classify_page(html, text, url) ==
    IF Len(html) = 0 THEN Cls("error", 0, "No HTML content")
    ELSE IF /\ IsGenericPath(Lower(UrlParse(url).path))
            /\ ~_has_product_signals(html, text)
    THEN Cls("generic", 0, "Generic redirect page with no products")
    ELSE IF _detect_blocked(html, text).is_blocked
    THEN Cls("blocked", 0, _detect_blocked(html, text).reason)
    ELSE Put(Classified(_detect_products(html, text, url).count,
                        _is_listing_url(url), text),
             "product_candidate_links",
             IF /\ _is_listing_url(url)
                /\ _detect_products(html, text, url).count > 0
             THEN _extract_product_candidate_links(html, url)
             ELSE <<>>)

(***************************************************************************)
(* AgentLoop._execute_tool                                                 *)
(***************************************************************************)

\* what _execute_tool hands back: the ToolResult, the fetched_urls set it
\* mutated, the cache it left, the collaborator calls it made, in order, and
\* the status, verdict and payload of the page it put to verification
Out(tool_result, fetched, store, io, checked) ==
    [tool_result |-> tool_result, fetched_urls |-> fetched,
     cache |-> store, io |-> io, checked |-> checked]

\* no page was put to verification
NoCheck == [status |-> 0, verdict |-> None, payload |-> FALSE, any |-> FALSE]

\* the locals status, verdict and "html or text" of a page put to verification
Checked(status, verdict, payload) ==
    [status |-> status, verdict |-> verdict, payload |-> payload, any |-> TRUE]

\* the budget test with > for >=
BudgetExceeded(fetched, max_pages_fetched) ==
    Cardinality(fetched) > max_pages_fetched

\* len(fetched_urls) >= max_pages_fetched
BudgetExhausted(fetched, max_pages_fetched) ==
    Cardinality(fetched) >= max_pages_fetched

\* the rejection reason of a result that did not pass verification
RejectionReason(verdict, classification) ==
    IF verdict = "listing_empty" THEN "Empty listing page (no products found)"
    ELSE IF verdict = "blocked" THEN "Page is blocked or requires verification"
    ELSE IF verdict = "generic" THEN "Generic redirect page"
    ELSE IF verdict = "error" THEN "Page classification error"
    ELSE Get(classification, "reason", "Page did not pass verification")

\* f"{i}. {link}\n" for the links from index i on, at most up to index 10
RECURSIVE LinkLines(_, _)
LinkLines(links, i) ==
    IF i > Len(links) \/ i > 10 THEN ""
    ELSE ToString(i) \o ". " \o links[i] \o "\n" \o LinkLines(links, i + 1)

\* the "Found N product candidate links" block appended to content
CandidateBlock(links) ==
    IF Len(links) = 0 THEN ""
    ELSE "\n\nFound " \o ToString(Len(links)) \o " product candidate links:\n"
           \o LinkLines(links, 1)
           \o (IF Len(links) > 10
               THEN "... and " \o ToString(Len(links) - 10) \o " more\n"
               ELSE "")

\* text[:500]
First500(text) == SubSeq(text, 1, IF Len(text) < 500 THEN Len(text) ELSE 500)

\* render_result after "if html and not text: text = extract_text(html)"
WithRenderText(render_result) ==
    IF /\ Truthy(GetOrNone(render_result, "html"))
       /\ ~Truthy(GetOrNone(render_result, "text"))
    THEN Put(render_result, "text", extract_text(render_result.html))
    ELSE render_result

HasPayload(r) == Truthy(GetOrNone(r, "html")) \/ Truthy(GetOrNone(r, "text"))

\* search_web branch; searched tells whether brave_client.search raises and
\* the list it returns otherwise
ExecSearch(args, fetched, store, searched) ==
    LET query == Get(args, "query", "")
        hit == /\ cache_has(store, "search", query)
               /\ Len(cache_get(store, "search", query)) > 0
        results == IF hit THEN cache_get(store, "search", query)
                   ELSE searched.results
        store1 == IF hit \/ searched.raises THEN store
                  ELSE cache_set(store, "search", query, searched.results)
        io == <<"cache.get_search">>
                \o (IF hit THEN <<>> ELSE <<"search">>)
                \o (IF hit \/ searched.raises THEN <<>> ELSE <<"cache.set_search">>)
        line(r) == "- " \o r.title \o "\n  URL: " \o r.url \o "\n  " \o r.snippet
        formatted == Join([j \in 1..Len(results) |-> line(results[j])], "\n")
    IN IF ~hit /\ searched.raises
       THEN Out([content |-> "Search failed: error", success |-> FALSE],
                fetched, store, io, NoCheck)
       ELSE IF Len(results) = 0
       THEN Out([content |-> "Search returned no results. Try a different query.",
                 success |-> FALSE], fetched, store1, io, NoCheck)
       ELSE Out([content |-> "Found " \o ToString(Len(results))
                               \o " search results:\n\n" \o formatted,
                 success |-> TRUE], fetched, store1, io, NoCheck)

\* the 403/401 fallback of fetch_url once the render has returned
FallbackResult(url, fetched, store, io, render_result) ==
    LET classification == Get(render_result, "classification", EmptyDict)
        verdict == ToVerdict(Get(classification, "verdict", "error"))
        rejection_reason == RejectionReason(verdict, classification)
        text == Get(render_result, "text", "")
        links == Get(classification, "product_candidate_links", <<>>)
        final_url == Get(render_result, "final_url", url)
        checked == Checked(200, verdict, HasPayload(render_result))
    IN IF ~HasPayload(render_result)
       THEN Out([content |-> "Failed to render " \o url
                    \o " after 403 error. Page may be blocked or timeout occurred.",
                 success |-> FALSE, url |-> url, is_verified |-> FALSE,
                 rejection_reason |-> "Failed to render after 403"],
                fetched, store, io, checked)
       ELSE IF ~_is_good_url(200, url, verdict)
       THEN Out([content |-> "Rendered " \o url \o " (after 403) but page is not valid: "
                    \o rejection_reason \o ".\n\nPage content:\n"
                    \o First500(text) \o "...",
                 success |-> FALSE, url |-> url, is_verified |-> FALSE,
                 rejection_reason |-> rejection_reason, verdict |-> verdict,
                 product_count |-> Get(classification, "product_count", 0)],
                fetched, store, io, checked)
       ELSE Out([content |-> "Fetched " \o url
                    \o " returned 403 (bot check), so rendered with browser instead:\n\n"
                    \o text \o CandidateBlock(links),
                 success |-> TRUE, url |-> final_url, final_url |-> final_url,
                 canonical_url |-> GetOrNone(render_result, "canonical_url"),
                 extracted_links |-> Get(render_result, "extracted_links", <<>>),
                 product_candidate_links |-> links,
                 is_verified |-> TRUE, verdict |-> verdict,
                 product_count |-> Get(classification, "product_count", 0),
                 verification_reason |-> "Rendered after 403: "
                    \o Get(classification, "reason", "Page verified successfully")],
                fetched \cup {url}, store, io, checked)

\* the fallback without its render call
ExecFallbackNoRender(url, fetched, store, io, rendered) ==
    FallbackResult(url, fetched, store, io, EmptyDict)

\* the 403/401 fallback of fetch_url: the render replaces the fetch result
ExecFallback(url, fetched, store, io, rendered) ==
    IF HasPayload(rendered)
    THEN FallbackResult(url, fetched,
                        cache_set(store, "render", url, WithRenderText(rendered)),
                        io \o <<"render", "cache.set_render">>,
                        WithRenderText(rendered))
    ELSE FallbackResult(url, fetched, store, io \o <<"render">>, rendered)

\* fetch_url once fetch_result is at hand, from the cache or the collaborator
FetchResult(url, fetched, store, io, fetch_result, rendered) ==
    LET status == Get(fetch_result, "status", 0)
        final_url == Get(fetch_result, "final_url", url)
        classification == Get(fetch_result, "classification", EmptyDict)
        verdict == ToVerdict(Get(classification, "verdict", "error"))
        error_msg == Get(fetch_result, "error", "Unknown error")
        rejection_reason == RejectionReason(verdict, classification)
        text == Get(fetch_result, "text", extract_text(Get(fetch_result, "html", "")))
        title == Get(fetch_result, "title", "")
        links == Get(classification, "product_candidate_links", <<>>)
        checked == Checked(status, verdict, HasPayload(fetch_result))
    IN IF status = 403 \/ status = 401
       THEN ExecFallback(url, fetched, store, io, rendered)
       ELSE IF ~HasPayload(fetch_result)
       THEN Out([content |-> "Failed to fetch " \o url \o " (status: "
                    \o ToString(status) \o ", error: " \o error_msg
                    \o "). Try render_url if this is a JavaScript-heavy page.",
                 success |-> FALSE, url |-> final_url, status |-> status,
                 error |-> error_msg, is_verified |-> FALSE,
                 rejection_reason |-> "Failed to fetch (status: "
                    \o ToString(status) \o ", error: " \o error_msg \o ")"],
                fetched, store, io, checked)
       ELSE IF ~_is_good_url(status, final_url, verdict)
       THEN Out([content |-> "Fetched " \o url \o " but page is not valid: "
                    \o rejection_reason \o ".\n\nPage content:\n"
                    \o First500(text) \o "...",
                 success |-> FALSE, url |-> final_url, title |-> title,
                 is_verified |-> FALSE, rejection_reason |-> rejection_reason,
                 verdict |-> verdict,
                 product_count |-> Get(classification, "product_count", 0)],
                fetched, store, io, checked)
       ELSE Out([content |-> "Fetched " \o url \o ":\n\n" \o text
                    \o CandidateBlock(links),
                 success |-> TRUE, url |-> final_url, final_url |-> final_url,
                 canonical_url |-> GetOrNone(fetch_result, "canonical_url"),
                 title |-> title,
                 sku |-> IF verdict = "product"
                         THEN extract_sku(Get(fetch_result, "html", ""), text)
                         ELSE None,
                 extracted_links |-> Get(fetch_result, "extracted_links", <<>>),
                 product_candidate_links |-> links,
                 is_verified |-> TRUE, verdict |-> verdict,
                 product_count |-> Get(classification, "product_count", 0),
                 verification_reason |->
                    Get(classification, "reason", "Page verified successfully")],
                fetched \cup {final_url}, store, io, checked)

\* fetch_client.fetch(url) with text re-extracted: "if fetch_result.get('html')"
WithFetchText(fetched_page) ==
    IF Truthy(GetOrNone(fetched_page, "html"))
    THEN Put(fetched_page, "text", extract_text(fetched_page.html))
    ELSE fetched_page

\* fetch_url branch; fetched_page and rendered are what the fetch and the
\* render collaborator return if they are called
ExecFetch(args, fetched, max_pages_fetched, store, fetched_page, rendered) ==
    LET url == Get(args, "url", "") IN
    IF url = ""
    THEN Out([content |-> "No URL provided", success |-> FALSE],
             fetched, store, <<>>, NoCheck)
    ELSE IF BudgetExhausted(fetched, max_pages_fetched)
    THEN Out([content |-> "Maximum pages fetched ("
                 \o ToString(max_pages_fetched) \o "). Cannot fetch more.",
              success |-> FALSE], fetched, store, <<>>, NoCheck)
    ELSE IF cache_has(store, "fetch", url)
    THEN FetchResult(url, fetched, store, <<"cache.get_fetch">>,
                     cache_get(store, "fetch", url), rendered)
    ELSE IF Truthy(GetOrNone(fetched_page, "html"))
    THEN FetchResult(url, fetched,
                     cache_set(store, "fetch", url, WithFetchText(fetched_page)),
                     <<"cache.get_fetch", "fetch", "cache.set_fetch">>,
                     WithFetchText(fetched_page), rendered)
    ELSE FetchResult(url, fetched, store, <<"cache.get_fetch", "fetch">>,
                     fetched_page, rendered)

\* render_url once render_result is at hand
RenderResult(url, fetched, store, io, render_result) ==
    LET classification == Get(render_result, "classification", EmptyDict)
        verdict == ToVerdict(Get(classification, "verdict", "error"))
        rejection_reason == RejectionReason(verdict, classification)
        text == Get(render_result, "text", "")
        links == Get(classification, "product_candidate_links", <<>>)
        final_url == Get(render_result, "final_url", url)
        checked == Checked(200, verdict, HasPayload(render_result))
    IN IF ~HasPayload(render_result)
       THEN Out([content |-> "Failed to render " \o url
                    \o ". Page may be blocked or timeout occurred.",
                 success |-> FALSE, url |-> url, is_verified |-> FALSE,
                 rejection_reason |-> "Failed to render (timeout or error)"],
                fetched, store, io, checked)
       ELSE IF ~_is_good_url(200, url, verdict)
       THEN Out([content |-> "Rendered " \o url \o " but page is not valid: "
                    \o rejection_reason \o ".\n\nPage content:\n"
                    \o First500(text) \o "...",
                 success |-> FALSE, url |-> url, is_verified |-> FALSE,
                 rejection_reason |-> rejection_reason, verdict |-> verdict,
                 product_count |-> Get(classification, "product_count", 0)],
                fetched, store, io, checked)
       ELSE Out([content |-> "Rendered " \o url \o ":\n\n" \o text
                    \o CandidateBlock(links),
                 success |-> TRUE, url |-> final_url, final_url |-> final_url,
                 canonical_url |-> GetOrNone(render_result, "canonical_url"),
                 sku |-> IF verdict = "product"
                         THEN extract_sku(Get(render_result, "html", ""), text)
                         ELSE None,
                 extracted_links |-> Get(render_result, "extracted_links", <<>>),
                 product_candidate_links |-> links,
                 is_verified |-> TRUE, verdict |-> verdict,
                 product_count |-> Get(classification, "product_count", 0),
                 verification_reason |->
                    Get(classification, "reason", "Page verified successfully")],
                fetched \cup {url}, store, io, checked)

\* render_url storing whatever the browser returned
ExecRenderStoresEmpty(args, fetched, max_pages_fetched, store, rendered) ==
    LET url == Get(args, "url", "") IN
    IF url = ""
    THEN Out([content |-> "No URL provided", success |-> FALSE],
             fetched, store, <<>>, NoCheck)
    ELSE IF BudgetExhausted(fetched, max_pages_fetched)
    THEN Out([content |-> "Maximum pages fetched ("
                 \o ToString(max_pages_fetched) \o "). Cannot render more.",
              success |-> FALSE], fetched, store, <<>>, NoCheck)
    ELSE IF cache_has(store, "render", url)
    THEN RenderResult(url, fetched, store, <<"cache.get_render">>,
                      cache_get(store, "render", url))
    ELSE RenderResult(url, fetched,
                      cache_set(store, "render", url, WithRenderText(rendered)),
                      <<"cache.get_render", "render", "cache.set_render">>,
                      WithRenderText(rendered))

\* render_url branch
ExecRender(args, fetched, max_pages_fetched, store, rendered) ==
    LET url == Get(args, "url", "") IN
    IF url = ""
    THEN Out([content |-> "No URL provided", success |-> FALSE],
             fetched, store, <<>>, NoCheck)
    ELSE IF BudgetExhausted(fetched, max_pages_fetched)
    THEN Out([content |-> "Maximum pages fetched ("
                 \o ToString(max_pages_fetched) \o "). Cannot render more.",
              success |-> FALSE], fetched, store, <<>>, NoCheck)
    ELSE IF cache_has(store, "render", url)
    THEN RenderResult(url, fetched, store, <<"cache.get_render">>,
                      cache_get(store, "render", url))
    ELSE IF HasPayload(rendered)
    THEN RenderResult(url, fetched,
                      cache_set(store, "render", url, WithRenderText(rendered)),
                      <<"cache.get_render", "render", "cache.set_render">>,
                      WithRenderText(rendered))
    ELSE RenderResult(url, fetched, store, <<"cache.get_render", "render">>,
                      rendered)

\* an unknown tool answered as a success
ExecUnknownOk(function_name, fetched, store) ==
    Out([content |-> "Unknown tool: " \o function_name, success |-> TRUE],
        fetched, store, <<>>, NoCheck)

\* any other function_name
ExecUnknown(function_name, fetched, store) ==
    Out([content |-> "Unknown tool: " \o function_name, success |-> FALSE],
        fetched, store, <<>>, NoCheck)

(***************************************************************************)
(* AgentLoop._get_verified_sources_only and _verify_product_urls           *)
(***************************************************************************)

\* metadata.get("canonical_url") or metadata.get("final_url") or url
DisplayUrl(url, metadata) ==
    IF Truthy(metadata.canonical_url) THEN metadata.canonical_url
    ELSE IF Truthy(metadata.final_url) THEN metadata.final_url
    ELSE url

\* _get_verified_sources_only(verified_urls)
_get_verified_sources_only(verified) ==
    [i \in 1..Len(verified) |->
        [url |-> DisplayUrl(verified[i][1], verified[i][2]),
         title |-> verified[i][2].title]]

\* preferred_url of one verified entry
PreferredUrl(url, metadata) ==
    IF Truthy(metadata.canonical_url) /\ metadata.canonical_url # url
    THEN metadata.canonical_url
    ELSE metadata.final_url

\* the re-fetch attempted without the test len(fetched_urls) < max_pages_fetched
RefetchesOverBudget(url, metadata, fetched, max_pages_fetched) ==
    /\ metadata.verdict = "product"
    /\ PreferredUrl(url, metadata) # url
    /\ PreferredUrl(url, metadata) \notin fetched

\* the re-fetch of the preferred URL is attempted for this entry
Refetches(url, metadata, fetched, max_pages_fetched) ==
    /\ metadata.verdict = "product"
    /\ PreferredUrl(url, metadata) # url
    /\ PreferredUrl(url, metadata) \notin fetched
    /\ Cardinality(fetched) < max_pages_fetched

\* the re-fetch returned status 200 with verdict product
RefetchIsProduct(refetch) ==
    /\ ~refetch.raises
    /\ Get(refetch.page, "status", 0) = 200
    /\ Get(Get(refetch.page, "classification", EmptyDict), "verdict", None) = "product"

\* the promotion without the SKU comparison
VerifiedEntryAnySku(url, metadata, fetched, max_pages_fetched, refetch) ==
    IF /\ Refetches(url, metadata, fetched, max_pages_fetched)
       /\ RefetchIsProduct(refetch)
    THEN [metadata EXCEPT
            !.url = PreferredUrl(url, metadata),
            !.final_url = PreferredUrl(url, metadata),
            !.canonical_url = Get(refetch.page, "canonical_url",
                                  metadata.canonical_url),
            !.sku = extract_sku(Get(refetch.page, "html", ""),
                                Get(refetch.page, "text", ""))]
    ELSE metadata

\* the metadata of one entry after its iteration of the loop
VerifiedEntry(url, metadata, fetched, max_pages_fetched, refetch) ==
    LET preferred_url == PreferredUrl(url, metadata)
        preferred_sku == extract_sku(Get(refetch.page, "html", ""),
                                     Get(refetch.page, "text", ""))
    IN IF /\ Refetches(url, metadata, fetched, max_pages_fetched)
          /\ RefetchIsProduct(refetch)
          /\ metadata.sku = preferred_sku
       THEN [metadata EXCEPT
                !.url = preferred_url,
                !.final_url = preferred_url,
                !.canonical_url = Get(refetch.page, "canonical_url",
                                      metadata.canonical_url),
                !.sku = preferred_sku]
       ELSE metadata

\* _verify_product_urls from entry i on; refetches[i] is what the fetch
\* collaborator does if the loop re-fetches for entry i
RECURSIVE VerifyFrom(_, _, _, _, _)
VerifyFrom(verified, i, fetched, max_pages_fetched, refetches) ==
    IF i > Len(verified)
    THEN [verified_urls |-> verified, fetched_urls |-> fetched]
    ELSE LET url == verified[i][1]
             metadata == verified[i][2]
             refetch == refetches[i]
             fetched1 ==
                IF /\ Refetches(url, metadata, fetched, max_pages_fetched)
                   /\ RefetchIsProduct(refetch)
                THEN fetched \cup {PreferredUrl(url, metadata)}
                ELSE fetched
             entry == VerifiedEntry(url, metadata, fetched,
                                    max_pages_fetched, refetch)
         IN VerifyFrom([verified EXCEPT ![i] = <<url, entry>>], i + 1,
                       fetched1, max_pages_fetched, refetches)

_verify_product_urls(verified, fetched, max_pages_fetched, refetches) ==
    VerifyFrom(verified, 1, fetched, max_pages_fetched, refetches)

(***************************************************************************)
(* Bounds and the collaborators' possible answers                          *)
(***************************************************************************)

\* max_steps ranges over 0..MaxSteps, max_pages_fetched over 0..MaxPages
MaxSteps == 2
MaxPages == 2
\* tool calls the LLM emits in one run
MaxToolCalls == 2

U1 == "http://a/p"
U2 == "http://a/p/r"

\* the URLs the LLM asks for
ReqUrls == {U1}

\* where a page redirects to, and what it declares canonical
Other(url) == IF url = U1 THEN U2 ELSE U1

\* FetchClient.fetch, the path without exception: text, links and
\* classification come with the page
FetchedPage(status, final_url, canonical_url, html, classification) ==
    [status |-> status, final_url |-> final_url,
     canonical_url |-> canonical_url, html |-> html, title |-> "Ring",
     text |-> "", extracted_links |-> <<>>,
     classification |-> classification, error |-> None]

\* FetchClient.fetch, the except paths: no html, no classification
FetchError(status, url, error) ==
    [status |-> status, final_url |-> url, html |-> "", title |-> "",
     text |-> "", error |-> error]

\* a fetch result whose collaborator attached no classification: the
\* executor reads it with fetch_result.get("classification", {})
UnclassifiedPage(status, final_url, html) ==
    [status |-> status, final_url |-> final_url, canonical_url |-> None,
     html |-> html, title |-> "Ring", text |-> "", extracted_links |-> <<>>,
     error |-> None]

HtmlProduct == "<div itemtype=\"https://schema.org/Product\">ring</div>"
HtmlS1 == "<p>sku: s1</p>"
HtmlS2 == "<p>sku: s2</p>"
HtmlPlain == "<p>ring</p>"

IsProduct == Cls("product", 1, "Product page detected")

\* what fetch_client.fetch(url) may return
FetchPages(url) ==
    {FetchedPage(200, url, url, HtmlS1, IsProduct),
     FetchedPage(200, url, Other(url), HtmlS1, IsProduct),
     FetchedPage(200, url, Other(url), HtmlPlain, IsProduct),
     FetchedPage(200, Other(url), None, HtmlS1, IsProduct),
     FetchedPage(200, url, None, HtmlPlain,
                 Put(Cls("listing_with_products", 3, "Listing page with 3 products detected"),
                     "product_candidate_links", <<Other(url)>>)),
     FetchedPage(200, url, None, HtmlPlain,
                 Cls("listing_empty", 0, "Listing/search page with no products")),
     FetchedPage(200, url, None, HtmlPlain, Cls("blocked", 0, "captcha")),
     FetchedPage(200, url, None, "", Cls("error", 0, "No HTML content")),
     UnclassifiedPage(200, url, HtmlProduct),
     FetchError(403, url, "HTTP 403"),
     FetchError(0, url, "Timeout")}

\* BrowserClient.render results
RenderedPage(final_url, canonical_url, html, text, classification) ==
    [final_url |-> final_url, canonical_url |-> canonical_url,
     html |-> html, text |-> text, extracted_links |-> <<>>,
     classification |-> classification]

\* what browser_client.render(url) may return
RenderPages(url) ==
    {RenderedPage(url, None, HtmlS1, "sku: s1", IsProduct),
     RenderedPage(Other(url), None, HtmlPlain, "ring", IsProduct),
     RenderedPage(url, None, HtmlPlain, "ring", Cls("blocked", 0, "captcha")),
     RenderedPage(url, None, "", "",
                  Cls("error", 0, "No content received (timeout or error)"))}

\* what brave_client.search(query) may do
SearchOutcomes ==
    {[raises |-> TRUE, results |-> <<>>],
     [raises |-> FALSE, results |-> <<>>],
     [raises |-> FALSE,
      results |-> <<[title |-> "Ring", url |-> U1, snippet |-> "a ring"]>>]}

\* the re-fetch of an entry the final pass does not re-fetch
NotRefetched == [raises |-> TRUE, page |-> EmptyDict]

\* what fetch_client.fetch(preferred_url) may do in the final pass
RefetchOutcomes(preferred_url) ==
    {[raises |-> TRUE, page |-> EmptyDict],
     [raises |-> FALSE, page |-> FetchError(404, preferred_url, "HTTP 404")],
     [raises |-> FALSE,
      page |-> FetchedPage(200, preferred_url, None, HtmlPlain,
                           Cls("listing_empty", 0, "Listing/search page with no products"))],
     [raises |-> FALSE,
      page |-> [FetchedPage(200, preferred_url, None, HtmlS1, IsProduct)
                    EXCEPT !.text = "sku: s1"]],
     [raises |-> FALSE,
      page |-> [FetchedPage(203, preferred_url, None, HtmlS1, IsProduct)
                    EXCEPT !.text = "sku: s1"]],
     [raises |-> FALSE,
      page |-> [FetchedPage(200, preferred_url, preferred_url, HtmlS2, IsProduct)
                    EXCEPT !.text = "sku: s2"]],
     [raises |-> FALSE,
      page |-> [FetchedPage(200, preferred_url, None, HtmlPlain, IsProduct)
                    EXCEPT !.text = "ring"]]}

\* what the fetch collaborator may do for each entry of verified_urls in the
\* final pass
RefetchPlans(verified) ==
    {f \in [1..Len(verified) ->
                UNION {RefetchOutcomes(PreferredUrl(verified[i][1], verified[i][2])) :
                            i \in 1..Len(verified)}] :
        \A i \in 1..Len(verified) :
            LET url == verified[i][1]
                metadata == verified[i][2]
            IN IF metadata.verdict = "product" /\ PreferredUrl(url, metadata) # url
               THEN f[i] \in RefetchOutcomes(PreferredUrl(url, metadata))
               ELSE f[i] = NotRefetched}

\* the arguments of the tool calls the LLM emits
ToolCallChoices ==
    {[name |-> "search_web", valid |-> TRUE, args |-> [query |-> "site:a ring"]],
     [name |-> "summarize", valid |-> TRUE, args |-> EmptyDict],
     [name |-> "fetch_url", valid |-> FALSE, args |-> EmptyDict]}
    \cup {[name |-> n, valid |-> TRUE, args |-> [url |-> u]] :
            n \in {"fetch_url", "render_url"}, u \in ReqUrls \cup {""}}

\* the content of an assistant turn that carries tool calls
ToolTurnContents == {"", "Looking at http://a/p/r now"}

\* the content of a final assistant turn
FinalAnswers ==
    {"", "Best match: http://a/p.", "See http://a/p/r and http://a/p",
     "Also http://b/x?ref=1 (new)"}

SystemPrompt == "You are a product research assistant that finds similar products across websites."
UserPrompt == "Find similar rings"

\* all sequences over S of length 1..n
RECURSIVE SeqsUpTo(_, _)
SeqsUpTo(S, n) ==
    IF n = 0 THEN {}
    ELSE LET shorter == SeqsUpTo(S, n - 1) IN
         {<<x>> : x \in S} \cup shorter
            \cup {Append(q, x) : q \in {r \in shorter : Len(r) = n - 1}, x \in S}

\* the orders in which a set can be iterated
Orders(S) ==
    {f \in [1..Cardinality(S) -> S] : \A i, j \in DOMAIN f : f[i] = f[j] => i = j}

(***************************************************************************)
(* AgentLoop.run as a state machine                                        *)
(***************************************************************************)

VARIABLES
    pc,                 \* "llm": about to call the LLM; "tool": inside the
                        \* for-loop over tool_calls; "done": run has returned
    max_steps,          \* run parameter
    max_pages_fetched,  \* run parameter
    step,               \* the loop variable of "for step in range(max_steps)"
    messages,           \* the message history
    tool_calls,         \* the tool calls of this round not yet executed
    attempted_urls,
    verified_urls,      \* ordered dict: sequence of <<url, metadata>>
    rejected_urls,      \* dict url -> reason
    fetched_urls,
    debug_traces,
    cache,              \* the store behind self.cache
    result,             \* what run returned, EmptyDict before it returns
    last,               \* observation: the last executed tool call with its
                        \* Out, and the final pass with what it started from
    emitted,            \* tool calls emitted by the LLM so far
    suspended           \* the locals of another run of the same AgentLoop
                        \* that is not executing now, NoRun when there is
                        \* none

vars == <<pc, max_steps, max_pages_fetched, step, messages, tool_calls,
          attempted_urls, verified_urls, rejected_urls, fetched_urls,
          debug_traces, cache, result, last, emitted, suspended>>

\* run is the only call executing on the AgentLoop
NoRun == [run |-> 0]

NoCall == [name |-> "", args |-> EmptyDict]

\* how run returned, and what _verify_product_urls was given: the verified
\* map and the fetched set before the pass and the re-fetch results
Returned(via, verified, fetched, refetches) ==
    [via |-> via, verified_urls |-> verified, fetched_urls |-> fetched,
     refetches |-> refetches]

NotReturned == Returned("", <<>>, {}, <<>>)

Init ==
    /\ pc = "llm"
    /\ max_steps \in 0..MaxSteps
    /\ max_pages_fetched \in 0..MaxPages
    /\ step = 0
    /\ messages = <<[role |-> "system", content |-> SystemPrompt],
                    [role |-> "user", content |-> UserPrompt]>>
    /\ tool_calls = <<>>
    /\ attempted_urls = {}
    /\ verified_urls = <<>>
    /\ rejected_urls = EmptyDict
    /\ fetched_urls = {}
    /\ debug_traces = <<>>
    /\ cache = EmptyDict
    /\ result = EmptyDict
    /\ last = [call |-> NoCall,
               out |-> Out(EmptyDict, {}, EmptyDict, <<>>, NoCheck),
               final |-> NotReturned]
    /\ emitted = 0
    /\ suspended = NoRun

\* the LLM call raises: lines 113-121
LLMFails ==
    /\ pc = "llm"
    /\ step < max_steps
    /\ result' = [answer |-> "Error communicating with LLM: error",
                  sources |-> <<>>,
                  debug |-> debug_traces]
    /\ last' = [last EXCEPT !.final = Returned("llm_error", <<>>, {}, <<>>)]
    /\ pc' = "done"
    /\ UNCHANGED <<suspended, max_steps, max_pages_fetched, step, messages, tool_calls,
                   attempted_urls, verified_urls, rejected_urls, fetched_urls,
                   debug_traces, cache, emitted>>

\* the response carries no tool calls: lines 124-139
LLMFinal ==
    /\ pc = "llm"
    /\ step < max_steps
    /\ \E content \in FinalAnswers, refetches \in RefetchPlans(verified_urls) :
        LET pass == _verify_product_urls(verified_urls, fetched_urls,
                                         max_pages_fetched, refetches)
        IN \E order \in Orders(DictKeys(pass.verified_urls)) :
            /\ verified_urls' = pass.verified_urls
            /\ fetched_urls' = pass.fetched_urls
            /\ result' = [answer |-> _sanitize_output(content,
                                        DictKeys(pass.verified_urls), order),
                          sources |-> _get_verified_sources_only(pass.verified_urls),
                          debug |-> debug_traces]
            /\ last' = [last EXCEPT !.final =
                            Returned("final_answer", verified_urls,
                                     fetched_urls, refetches)]
    /\ pc' = "done"
    /\ UNCHANGED <<suspended, max_steps, max_pages_fetched, step, messages, tool_calls,
                   attempted_urls, rejected_urls, debug_traces, cache, emitted>>

\* tool_call ids in emission order
CallId(n) == "call_" \o ToString(n)

\* the response carries tool calls: lines 141-144
LLMToolCalls ==
    /\ pc = "llm"
    /\ step < max_steps
    /\ emitted < MaxToolCalls
    /\ \E content \in ToolTurnContents,
          calls \in SeqsUpTo(ToolCallChoices, MaxToolCalls - emitted) :
        LET withIds == [i \in 1..Len(calls) |->
                            Put(calls[i], "id", CallId(emitted + i))]
        IN /\ messages' = Append(messages,
                            [role |-> "assistant", content |-> content,
                             tool_calls |-> withIds])
           /\ tool_calls' = withIds
           /\ emitted' = emitted + Len(calls)
    /\ pc' = "tool"
    /\ UNCHANGED <<suspended, max_steps, max_pages_fetched, step, attempted_urls,
                   verified_urls, rejected_urls, fetched_urls, debug_traces,
                   cache, result, last>>

\* the end of an iteration that leaves the step counter as it is
NextCallSameStep ==
    /\ tool_calls' = Tail(tool_calls)
    /\ pc' = (IF Len(tool_calls) = 1 THEN "llm" ELSE "tool")
    /\ step' = step

\* the end of one iteration of "for tool_call in tool_calls"
NextCall ==
    /\ tool_calls' = Tail(tool_calls)
    /\ IF Len(tool_calls) = 1
       THEN pc' = "llm" /\ step' = step + 1
       ELSE pc' = "tool" /\ step' = step

BudgetMessage ==
    [role |-> "user",
     content |-> "Maximum number of pages fetched ("
        \o ToString(max_pages_fetched)
        \o "). Please provide your final answer based on the information gathered so far."]

\* the metadata run stores for a verified tool result: lines 187-196
Metadata(tool_result) ==
    [url |-> tool_result.url,
     title |-> Get(tool_result, "title", tool_result.url),
     verdict |-> GetOrNone(tool_result, "verdict"),
     product_count |-> Get(tool_result, "product_count", 0),
     reason |-> Get(tool_result, "verification_reason", ""),
     final_url |-> Get(tool_result, "final_url", tool_result.url),
     canonical_url |-> GetOrNone(tool_result, "canonical_url"),
     sku |-> GetOrNone(tool_result, "sku")]

\* tool_result.get("is_verified")
IsVerified(tool_result) == Get(tool_result, "is_verified", FALSE)

\* what run does with the result of one executed tool call: lines 169-215
Track(call, out) ==
    LET tool_result == out.tool_result
        hasUrl == "url" \in DOMAIN tool_result
        toolMsg == [role |-> "tool", tool_call_id |-> call.id,
                    content |-> tool_result.content]
    IN /\ attempted_urls' = IF hasUrl THEN attempted_urls \cup {tool_result.url}
                            ELSE attempted_urls
       /\ verified_urls' =
            IF hasUrl /\ IsVerified(tool_result)
            THEN DictPut(verified_urls, tool_result.url, Metadata(tool_result))
            ELSE verified_urls
       /\ rejected_urls' =
            IF /\ hasUrl
               /\ ~IsVerified(tool_result)
               /\ Truthy(GetOrNone(tool_result, "rejection_reason"))
            THEN Put(rejected_urls, tool_result.url, tool_result.rejection_reason)
            ELSE rejected_urls
       /\ fetched_urls' = out.fetched_urls
       /\ cache' = out.cache
       /\ debug_traces' = Append(debug_traces,
            [step |-> step + 1, tool |-> call.name, args |-> call.args,
             result_length |-> Len(tool_result.content),
             success |-> Get(tool_result, "success", FALSE)])
       /\ messages' =
            IF BudgetExhausted(out.fetched_urls, max_pages_fetched)
            THEN messages \o <<toolMsg, BudgetMessage>>
            ELSE Append(messages, toolMsg)
       /\ last' = [call |-> call, out |-> out, final |-> NotReturned]
       /\ NextCall
       /\ UNCHANGED <<suspended, max_steps, max_pages_fetched, result, emitted>>

\* the head of the round is the next call to execute
AtCall(name) ==
    /\ pc = "tool"
    /\ Head(tool_calls).valid
    /\ Head(tool_calls).name = name

\* json.loads raises: the call is skipped (lines 149-154)
MalformedArgs ==
    /\ pc = "tool"
    /\ ~Head(tool_calls).valid
    /\ NextCall
    /\ UNCHANGED <<suspended, max_steps, max_pages_fetched, messages, attempted_urls,
                   verified_urls, rejected_urls, fetched_urls, debug_traces,
                   cache, result, last, emitted>>

SearchWeb ==
    /\ AtCall("search_web")
    /\ \E searched \in SearchOutcomes :
        Track(Head(tool_calls),
              ExecSearch(Head(tool_calls).args, fetched_urls, cache, searched))

FetchUrl ==
    /\ AtCall("fetch_url")
    /\ LET url == Get(Head(tool_calls).args, "url", "") IN
       \E fetched_page \in FetchPages(url) :
       \E rendered \in (IF fetched_page.status \in {401, 403}
                        THEN RenderPages(url) ELSE {EmptyDict}) :
        Track(Head(tool_calls),
              ExecFetch(Head(tool_calls).args, fetched_urls, max_pages_fetched,
                        cache, fetched_page, rendered))

RenderUrl ==
    /\ AtCall("render_url")
    /\ LET url == Get(Head(tool_calls).args, "url", "") IN
       \E rendered \in RenderPages(url) :
        Track(Head(tool_calls),
              ExecRender(Head(tool_calls).args, fetched_urls, max_pages_fetched,
                         cache, rendered))

UnknownTool ==
    /\ pc = "tool"
    /\ Head(tool_calls).valid
    /\ Head(tool_calls).name \notin {"search_web", "fetch_url", "render_url"}
    /\ Track(Head(tool_calls),
             ExecUnknown(Head(tool_calls).name, fetched_urls, cache))

\* the content of the last assistant message that has content, "" if none
RECURSIVE LastAssistantContent(_, _)
LastAssistantContent(msgs, i) ==
    IF i < 1 THEN ""
    ELSE IF msgs[i].role = "assistant" /\ Truthy(msgs[i].content)
         THEN msgs[i].content
    ELSE LastAssistantContent(msgs, i - 1)

RECURSIVE SourceLines(_, _)
SourceLines(sources, i) ==
    IF i > Len(sources) THEN ""
    ELSE "- " \o sources[i].title \o ": " \o sources[i].url \o "\n"
            \o SourceLines(sources, i + 1)

\* the step-limit answer that never takes up an assistant message
StepLimitSummary ==
    LET verified_sources == _get_verified_sources_only(verified_urls)
    IN IF Len(verified_sources) > 0
       THEN "I found " \o ToString(Len(verified_sources))
              \o " verified source(s), but reached the step limit. "
              \o "Here's what I gathered:\n\n"
              \o SourceLines(verified_sources, 1)
       ELSE "I reached the step limit before finding any verified sources. Please try a different query or increase max_steps."

\* the answer built at the step limit, before sanitizing: lines 221-241
StepLimitAnswer ==
    LET final_answer == LastAssistantContent(messages, Len(messages))
        verified_sources == _get_verified_sources_only(verified_urls)
    IN IF final_answer # ""
       THEN "[Note: Reached step limit] " \o final_answer
       ELSE IF Len(verified_sources) > 0
       THEN "I found " \o ToString(Len(verified_sources))
              \o " verified source(s), but reached the step limit. "
              \o "Here's what I gathered:\n\n"
              \o SourceLines(verified_sources, 1)
       ELSE "I reached the step limit before finding any verified sources. Please try a different query or increase max_steps."

\* the for-loop ran out of steps: lines 217-253
StepLimit ==
    /\ pc = "llm"
    /\ step >= max_steps
    /\ \E order \in Orders(DictKeys(verified_urls)),
          refetches \in RefetchPlans(verified_urls) :
        LET pass == _verify_product_urls(verified_urls, fetched_urls,
                                         max_pages_fetched, refetches)
        IN /\ verified_urls' = pass.verified_urls
           /\ fetched_urls' = pass.fetched_urls
           /\ result' = [answer |-> _sanitize_output(StepLimitAnswer,
                                        DictKeys(verified_urls), order),
                         sources |-> _get_verified_sources_only(pass.verified_urls),
                         debug |-> debug_traces]
           /\ last' = [last EXCEPT !.final =
                           Returned("step_limit", verified_urls,
                                    fetched_urls, refetches)]
    /\ pc' = "done"
    /\ UNCHANGED <<suspended, max_steps, max_pages_fetched, step, messages, tool_calls,
                   attempted_urls, rejected_urls, debug_traces, cache, emitted>>

Next ==
    \/ LLMFails
    \/ LLMFinal
    \/ LLMToolCalls
    \/ MalformedArgs
    \/ SearchWeb
    \/ FetchUrl
    \/ RenderUrl
    \/ UnknownTool
    \/ StepLimit

Spec == Init /\ [][Next]_vars

(***************************************************************************)
(* _is_good_url and _sanitize_output applied on their own                  *)
(***************************************************************************)

\* the run variables while a single method is applied outside run
ParkedVars ==
    <<max_steps, max_pages_fetched, step, messages, tool_calls, attempted_urls,
      verified_urls, rejected_urls, fetched_urls, debug_traces, cache, result,
      emitted, suspended>>

Parked ==
    /\ max_steps = 0
    /\ max_pages_fetched = 0
    /\ step = 0
    /\ messages = <<>>
    /\ tool_calls = <<>>
    /\ attempted_urls = {}
    /\ verified_urls = <<>>
    /\ rejected_urls = EmptyDict
    /\ fetched_urls = {}
    /\ debug_traces = <<>>
    /\ cache = EmptyDict
    /\ result = EmptyDict
    /\ emitted = 0
    /\ suspended = NoRun

\* the arguments _is_good_url is applied to
InitGate ==
    /\ Parked
    /\ pc = "gate"
    /\ \E status \in {0, 199, 200, 204, 299, 300, 301, 403, 404, 500},
          final_url \in {"http://a/p", "http://a/", "http://a/Search/x",
                         "http://a/home"},
          verdict \in PageVerdict \cup {"unknown", None} :
        last = [call |-> [status |-> status, final_url |-> final_url,
                          verdict |-> verdict]]

\* one call of _is_good_url
IsGoodUrl ==
    /\ pc = "gate"
    /\ last' = [call |-> last.call,
                out |-> _is_good_url(last.call.status, last.call.final_url,
                                     last.call.verdict)]
    /\ pc' = "done"
    /\ UNCHANGED ParkedVars

NextGate == IsGoodUrl

SpecGate == InitGate /\ [][NextGate]_vars

\* an answer holds at most MaxUrls lines, each one of AnswerLines
MaxUrls == 2

AnswerLines ==
    {U1, U2, "http://a/q", "http://a/q/r", "http://a/p.",
     "http://a/p?utm_source=x", "http://b/x", "ring"}

\* the answer and the keys of verified_urls the sanitizer is given
InitSan ==
    /\ Parked
    /\ pc = "sanitize"
    /\ \E lines \in SeqsUpTo(AnswerLines, MaxUrls),
          V \in SUBSET {U1, U2, "http://c/y"} :
       \E order \in Orders(V) :
        last = [call |-> [answer |-> Join(lines, "\n"), V |-> V,
                          order |-> order]]

\* _sanitize_output(answer, verified_urls)
SanitizeAnswer ==
    /\ pc = "sanitize"
    /\ last' = [call |-> last.call,
                out |-> _sanitize_output(last.call.answer, last.call.V,
                                         last.call.order)]
    /\ pc' = "sanitized"
    /\ UNCHANGED ParkedVars

\* _sanitize_output applied to its own output with the same verified_urls
SanitizeAgain ==
    /\ pc = "sanitized"
    /\ last' = [call |-> last.call, out |-> last.out,
                again |-> _sanitize_output(last.out, last.call.V,
                                           last.call.order)]
    /\ pc' = "done"
    /\ UNCHANGED ParkedVars

NextSan == SanitizeAnswer \/ SanitizeAgain

SpecSan == InitSan /\ [][NextSan]_vars

\* a Cache object is given at most MaxCacheOps operations and waits
MaxCacheOps == 4

\* the run variables other than the cache
CacheParkedVars ==
    <<max_steps, max_pages_fetched, step, messages, tool_calls, attempted_urls,
      verified_urls, rejected_urls, fetched_urls, debug_traces, result, emitted,
      suspended>>

\* a fresh Cache at time 0; last.sets logs the set calls made so far
InitCache ==
    /\ Parked
    /\ pc = "cache"
    /\ last = [now |-> 0, ops |-> 0, sets |-> <<>>,
               call |-> [op |-> "", prefix |-> "", identifier |-> ""],
               out |-> None]

\* set_search, set_fetch or set_render is called
CacheSet ==
    /\ pc = "cache"
    /\ last.ops < MaxCacheOps
    /\ \E prefix \in {"search", "fetch", "render"},
          identifier \in {"ring", "Ring "},
          value \in {"v1", "v2"} :
        /\ cache' = cache_set_at(cache, prefix, identifier, value, last.now)
        /\ last' = [last EXCEPT
                      !.ops = @ + 1,
                      !.sets = Append(@, [prefix |-> prefix,
                                          identifier |-> identifier,
                                          value |-> value, at |-> last.now]),
                      !.call = [op |-> "set", prefix |-> prefix,
                                identifier |-> identifier],
                      !.out = None]
    /\ UNCHANGED <<pc, CacheParkedVars>>

\* get_search, get_fetch or get_render is called
CacheGet ==
    /\ pc = "cache"
    /\ last.ops < MaxCacheOps
    /\ \E prefix \in {"search", "fetch", "render"},
          identifier \in {"ring", "Ring "} :
        last' = [last EXCEPT
                   !.ops = @ + 1,
                   !.call = [op |-> "get", prefix |-> prefix,
                             identifier |-> identifier],
                   !.out = cache_get_at(cache, prefix, identifier, last.now)]
    /\ UNCHANGED <<pc, cache, CacheParkedVars>>

\* time passes between two calls
CacheWait ==
    /\ pc = "cache"
    /\ last.ops < MaxCacheOps
    /\ \E dt \in {1, SEARCH_CACHE_TTL - 1, FETCH_CACHE_TTL - 1} :
        last' = [last EXCEPT
                   !.now = @ + dt,
                   !.ops = @ + 1,
                   !.call = [op |-> "wait", prefix |-> "", identifier |-> ""],
                   !.out = None]
    /\ UNCHANGED <<pc, cache, CacheParkedVars>>

NextCache == CacheSet \/ CacheGet \/ CacheWait

SpecCache == InitCache /\ [][NextCache]_vars

\* a page holds at most MaxElems elements
MaxElems == 2

\* n times the character "x"
RECURSIVE Filler(_)
Filler(n) ==
    IF n = 0 THEN ""
    ELSE IF n = 1 THEN "x"
    ELSE Filler(n \div 2) \o Filler(n - n \div 2)

JsonLdScript(string) ==
    [Tag("script") EXCEPT !.type = "application/ld+json", !.string = string]

\* the elements the pages are made of
PageElements ==
    {Tag("p"),
     JsonLdScript("{\"@type\": \"Product\"}"),
     JsonLdScript("[{\"@type\": \"Product\"}]"),
     JsonLdScript("{\"@type\": \"Offer\"}"),
     [Tag("div") EXCEPT !.itemtype = "http://schema.org/Product"],
     [Tag("a") EXCEPT !.href = "/product/1", !.class = <<"product">>,
                      !.string = "Ring 1"],
     [Tag("a") EXCEPT !.href = "/about", !.string = "About"],
     [Tag("form") EXCEPT !.id = "captcha-form", !.action = "/verify"],
     [Tag("meta") EXCEPT !.http_equiv = "refresh"]}

\* <a href="/product/n" class="product">Product n</a>
ProductLink(n) ==
    [Tag("a") EXCEPT !.href = "/product/" \o n, !.class = <<"product">>,
                     !.string = "Product " \o n]

\* the product list of test_listing_with_products, alone and on a page that
\* also holds a JSON-LD Product
ListingPages ==
    {<<ProductLink("1"), ProductLink("2"), ProductLink("3")>>,
     <<JsonLdScript("{\"@type\": \"Product\"}"),
       ProductLink("1"), ProductLink("2"), ProductLink("3")>>}

\* <a href=...> with the classes of its nearest ancestors
Anchor(href, parent_class) ==
    [Tag("a") EXCEPT !.href = href, !.string = "Ring",
                     !.parent_class = parent_class]

\* the anchors of listing pages: product links inside and outside a product
\* container, the same product under a tracking parameter and a fragment,
\* links to another site, listing links, relative and script links
Anchors ==
    {Anchor("/p/ring", ""),
     Anchor("/p/ring?utm_source=x", "product-card"),
     Anchor(" /p/ring#top ", "product-card"),
     Anchor("http://b/p/ring", "product-card"),
     Anchor("HTTP://A/item/12", ""),
     Anchor("/products/car/bmw", "product-card"),
     Anchor("/p/search-rings", ""),
     Anchor("/about", "product-card"),
     Anchor("item/12", ""),
     Anchor("javascript:void(0)", "item"),
     Anchor("/123456", "")}

\* a listing page holds up to MaxLinks product links
MaxLinks == 51

LongListing == [i \in 1..MaxLinks |-> Anchor("/item/" \o ToString(i), "item")]

\* the html, text and url classify_page is applied to
InitClassify ==
    /\ Parked
    /\ pc = "classify"
    /\ \E html \in {<<>>} \cup SeqsUpTo(PageElements, MaxElems) \cup ListingPages
                    \cup SeqsUpTo(Anchors, MaxElems) \cup {LongListing},
          text \in {Filler(30), Filler(250), Filler(501)},
          url \in {"http://a/", "http://a/home/x", "http://a/index",
                   "http://a/search", "http://a/category/rings",
                   "http://a/p/1", "http://a/products", "http://a/ring",
                   "http://a/ring?q=ring"} :
        last = [call |-> [html |-> html, text |-> text, url |-> url]]

\* one call of classify_page
ClassifyPage ==
    /\ pc = "classify"
    /\ last' = [call |-> last.call,
                out |-> classify_page(last.call.html, last.call.text,
                                      last.call.url)]
    /\ pc' = "done"
    /\ UNCHANGED ParkedVars

SpecClassify == InitClassify /\ [][ClassifyPage]_vars

(***************************************************************************)
(* Properties                                                              *)
(***************************************************************************)

\* run returned through the final-answer path or the step-limit path
ReturnedAnswer ==
    pc = "done" /\ last.final.via \in {"final_answer", "step_limit"}

\* C1: after run returns through the final-answer path or the step-limit
\* path, every http(s) URL occurring in the returned answer is a key of the
\* verified map (as written, without trailing punctuation, or normalized).
C1_AnswerUrlsVerified ==
    ReturnedAnswer =>
        \A u \in Range(urls_found(result.answer)) :
            \/ u \in DictKeys(verified_urls)
            \/ RStrip(u, TrailingPunct) \in DictKeys(verified_urls)
            \/ Normalized(u) \in DictKeys(verified_urls)

\* C2: every url in the sources list returned by run is a key of the
\* verified map, whatever final_url and canonical_url were reported for it.
C2_SourcesAreVerifiedKeys ==
    pc = "done" =>
        \A i \in 1..Len(result.sources) :
            result.sources[i].url \in DictKeys(verified_urls)

\* C3: for a verified product entry whose preferred (canonical/final) URL
\* differs from its recorded URL, sources reports the preferred URL only if
\* the re-fetch of it returned a product page whose SKU equals the original,
\* and reports the recorded URL otherwise.
C3_PreferredOnlyIfRefetched ==
    ReturnedAnswer =>
        \A i \in 1..Len(last.final.verified_urls) :
            LET url == last.final.verified_urls[i][1]
                metadata == last.final.verified_urls[i][2]
                preferred_url == PreferredUrl(url, metadata)
                refetch == last.final.refetches[i]
                approved ==
                    /\ preferred_url \in fetched_urls
                    /\ preferred_url \notin last.final.fetched_urls
                    /\ ~refetch.raises
                    /\ Get(Get(refetch.page, "classification", EmptyDict),
                           "verdict", None) = "product"
                    /\ extract_sku(Get(refetch.page, "html", ""),
                                   Get(refetch.page, "text", "")) = metadata.sku
            IN (metadata.verdict = "product" /\ preferred_url # url) =>
                \/ result.sources[i].url = url
                \/ approved /\ result.sources[i].url = preferred_url

\* C4: in every reachable state of a run, during tool rounds and during the
\* final correctness pass, len(fetched_urls) <= max_pages_fetched.
C4_FetchedWithinBudget ==
    Cardinality(fetched_urls) <= max_pages_fetched

\* the final pass re-fetched a preferred URL and that used up the budget
C4_FinalPassFillsBudget ==
    /\ ReturnedAnswer
    /\ max_pages_fetched > 1
    /\ Cardinality(fetched_urls) = max_pages_fetched
    /\ fetched_urls # last.final.fetched_urls

\* the head of the round is a fetch_url or render_url call and the page
\* budget is used up
BudgetReachedAtCall ==
    /\ pc = "tool"
    /\ Head(tool_calls).name \in {"fetch_url", "render_url"}
    /\ Cardinality(fetched_urls) >= max_pages_fetched

\* the step answered "Maximum pages fetched (N). Cannot fetch/render more."
\* with success false, made no collaborator call and changed no tracking set
RefusedForBudget ==
    /\ last'.call = Head(tool_calls)
    /\ Get(last'.out.tool_result, "success", None) = FALSE
    /\ Get(last'.out.tool_result, "content", None) =
          "Maximum pages fetched (" \o ToString(max_pages_fetched)
            \o "). Cannot "
            \o (IF Head(tool_calls).name = "fetch_url" THEN "fetch" ELSE "render")
            \o " more."
    /\ last'.out.io = <<>>
    /\ UNCHANGED <<attempted_urls, verified_urls, rejected_urls, fetched_urls,
                   cache>>

C6_VerifiedIffGatePassed ==
    [][(/\ pc = "tool"
        /\ Head(tool_calls).valid
        /\ Head(tool_calls).name \in {"fetch_url", "render_url"})
       => LET checked == last'.out.checked
              tool_result == last'.out.tool_result
          IN IF ~checked.any
             THEN /\ verified_urls' = verified_urls
                  /\ rejected_urls' = rejected_urls
             ELSE IF /\ 200 <= checked.status /\ checked.status < 300
                     /\ checked.verdict \in {"product", "listing_with_products"}
             THEN /\ tool_result.url \in DictKeys(verified_urls')
                  /\ DictGet(verified_urls', tool_result.url).verdict
                        = checked.verdict
                  /\ \A k \in DictKeys(verified_urls') \ {tool_result.url} :
                        /\ k \in DictKeys(verified_urls)
                        /\ DictGet(verified_urls', k) = DictGet(verified_urls, k)
                  /\ rejected_urls' = rejected_urls
             ELSE /\ verified_urls' = verified_urls
                  /\ tool_result.url \in DOMAIN rejected_urls'
                  /\ rejected_urls'[tool_result.url] # ""
                  /\ rejected_urls'[tool_result.url] # None]_vars

\* one call verified a URL and a later call recorded a rejection
C6_VerifiedThenRejected ==
    /\ Len(verified_urls) > 0
    /\ last.out.checked.any
    /\ last.out.checked.verdict \in {"listing_empty", "blocked", "error"}
    /\ last.out.tool_result.url \in DOMAIN rejected_urls

\* C7: for every status, final URL and verdict, _is_good_url returns true
\* exactly when 200 <= status < 300 and the verdict is product or
\* listing_with_products.
C7_GateExactly ==
    pc = "done" =>
        (last.out <=> /\ 200 <= last.call.status
                      /\ last.call.status < 300
                      /\ last.call.verdict \in {"product", "listing_with_products"})

\* the gate accepted a listing with products on a generic path at status 299
C7_AcceptedOnGenericPath ==
    /\ pc = "done"
    /\ last.out = TRUE
    /\ last.call.status = 299
    /\ last.call.final_url = "http://a/Search/x"
    /\ last.call.verdict = "listing_with_products"

C9_SanitizeIdempotent ==
    pc = "done" => last.again = last.out

\* C10: every line of the answer that is a verified URL (it is a key of
\* verified, or its normalized form is) stands unchanged at the same line of
\* the sanitized answer.
C10_VerifiedUrlsUnchanged ==
    pc = "sanitized" =>
        LET before == Split(last.call.answer, "\n")
            after == Split(last.out, "\n")
        IN \A i \in 1..Len(before) :
            (before[i] \in last.call.V \/ Normalized(before[i]) \in last.call.V)
                => (i <= Len(after) /\ after[i] = before[i])

\* C11: when the chat collaborator raises, run returns the exception text as
\* answer together with one source for every URL verified before the failure.
C11_SourcesKeptOnLLMFailure ==
    (pc = "done" /\ last.final.via = "llm_error") =>
        /\ result.answer = "Error communicating with LLM: error"
        /\ Len(result.sources) = Len(verified_urls)
        /\ \A i \in 1..Len(verified_urls) :
            result.sources[i].url \in
                {verified_urls[i][1],
                 DisplayUrl(verified_urls[i][1], verified_urls[i][2])}

\* the tool calls of the assistant turns of the history from message i on, in
\* emission order
RECURSIVE EmittedCalls(_, _)
EmittedCalls(msgs, i) ==
    IF i > Len(msgs) THEN <<>>
    ELSE (IF msgs[i].role = "assistant" THEN msgs[i].tool_calls ELSE <<>>)
            \o EmittedCalls(msgs, i + 1)

\* C12: every return path of run returns debug, and debug holds one entry
\* for each tool call the LLM emitted in the rounds before the return, in
\* execution order, with that call's tool name and arguments.
C12_DebugEntryPerEmittedCall ==
    pc = "done" =>
        /\ "debug" \in DOMAIN result
        /\ LET calls == EmittedCalls(messages, 1) IN
            /\ Len(result.debug) = Len(calls)
            /\ \A i \in 1..Len(calls) :
                /\ result.debug[i].tool = calls[i].name
                /\ result.debug[i].args = calls[i].args

\* C13: once a round is over, the history holds exactly one tool message
\* per tool call the LLM emitted, in emission order, each with that call's
\* tool_call_id; this includes calls with malformed JSON arguments and calls
\* of an unknown tool.
C13_ToolMessagePerCall ==
    pc \in {"llm", "done"} =>
        LET calls == EmittedCalls(messages, 1)
            answers == SelectSeq(messages, LAMBDA msg : msg.role = "tool")
        IN /\ Len(answers) = Len(calls)
           /\ \A i \in 1..Len(calls) : answers[i].tool_call_id = calls[i].id

\* the step executes a tool call that fails at tool level: the search
\* collaborator raises, the page fetched or rendered has neither html nor
\* text, or the tool name is unknown
ToolLevelFailure ==
    /\ pc = "tool"
    /\ Head(tool_calls).valid
    /\ last'.call = Head(tool_calls)
    /\ \/ /\ Head(tool_calls).name = "search_web"
          /\ "search" \in Range(last'.out.io)
          /\ "cache.set_search" \notin Range(last'.out.io)
       \/ /\ Head(tool_calls).name \in {"fetch_url", "render_url"}
          /\ last'.out.checked.any
          /\ ~last'.out.checked.payload
       \/ Head(tool_calls).name \notin {"search_web", "fetch_url", "render_url"}

Running == pc # "done"

\* run as sequential code whose collaborator calls all return: a step that
\* can be taken is taken. The last conjunct is WF_vars(Next) with
\* ENABLED <<Next>>_vars written as the state predicate Running.
SpecLive == Init /\ [][Next]_vars /\ ([]<>~Running \/ []<><<Next>>_vars)

\* the calls made to or_client.chat so far: one per assistant turn with tool
\* calls in the history, and the one that ended the run with a final answer
\* or an exception
ChatCalls ==
    Len(SelectSeq(messages, LAMBDA msg : msg.role = "assistant"))
        + (IF pc = "done" /\ last.final.via \in {"final_answer", "llm_error"}
           THEN 1 ELSE 0)

C16_SecondSearchFromCache ==
    [][(/\ AtCall("search_web")
        /\ cache_has(cache, "search", Get(Head(tool_calls).args, "query", ""))
        /\ last'.call = Head(tool_calls))
       => "search" \notin Range(last'.out.io)]_vars

\* the set calls logged before a get for the same class and identifier
SetsOf(call) ==
    { i \in 1..Len(last.sets) :
        /\ last.sets[i].prefix = call.prefix
        /\ last.sets[i].identifier = call.identifier }

Fetch403(url, rendered) ==
    /\ AtCall("fetch_url")
    /\ url = Get(Head(tool_calls).args, "url", "")
    /\ last'.call = Head(tool_calls)
    /\ "fetch" \in Range(last'.out.io)
    /\ last'.out = ExecFetch(Head(tool_calls).args, fetched_urls,
                             max_pages_fetched, cache,
                             FetchError(403, url, "HTTP 403"), rendered)

HasJsonLdProduct(html) ==
    \E i \in 1..Len(html) :
        /\ html[i].name = "script"
        /\ html[i].type = "application/ld+json"
        /\ html[i].string \in {"{\"@type\": \"Product\"}",
                                "[{\"@type\": \"Product\"}]"}

\* C19: a page that holds a JSON-LD object of @type Product, at the top
\* level or inside a JSON-LD array, and that is not a blocked page, is
\* classified PRODUCT, or LISTING_WITH_PRODUCTS when its URL is
\* listing-shaped, with product_count >= 1.
C19_JsonLdProductClassified ==
    (/\ pc = "done"
     /\ HasJsonLdProduct(last.call.html)
     /\ ~_detect_blocked(last.call.html, last.call.text).is_blocked)
        => /\ last.out.verdict = IF _is_listing_url(last.call.url)
                                 THEN "listing_with_products" ELSE "product"
           /\ last.out.product_count >= 1

\* the path of url is /, /home, /index, /search or /category, or lies below
\* one of the last four
GenericRoot(url) ==
    LET path == UrlParse(url).path IN
    \/ path \in {"/", "/home", "/index", "/search", "/category"}
    \/ \E root \in {"/home", "/index", "/search", "/category"} :
            StartsWith(path, root \o "/")

\* the page shows none of the product signals: no JSON-LD Product, no
\* microdata item typed Product, no product-like link
NoProductSignal(html) ==
    /\ ~HasJsonLdProduct(html)
    /\ \A i \in 1..Len(html) :
        /\ ~Contains(Lower(html[i].itemtype), "product")
        /\ ~IsProductLink(html[i])

HasCaptchaForm(html) ==
    \E i \in 1..Len(html) :
        /\ html[i].name = "form"
        /\ \E keyword \in {"captcha", "verify", "challenge"} :
            \/ Contains(Lower(html[i].action), keyword)
            \/ Contains(Lower(html[i].id), keyword)
            \/ \E j \in 1..Len(html[i].class) :
                    Contains(Lower(html[i].class[j]), keyword)

\* C21: a page that has a form whose action, id or class contains a
\* captcha/verify/challenge keyword and whose text is shorter than 200
\* characters is classified BLOCKED, whatever its URL.
C21_CaptchaFormBlocked ==
    (/\ pc = "done"
     /\ HasCaptchaForm(last.call.html)
     /\ Len(last.call.text) < 200)
        => last.out.verdict = "blocked"


\* C22: a page with HTML that is not blocked, has a listing-shaped URL (such
\* as /category/<name>) and shows no product signal is classified
\* LISTING_EMPTY with product_count 0.
C22_EmptyListing ==
    (/\ pc = "done"
     /\ Len(last.call.html) > 0
     /\ ~_detect_blocked(last.call.html, last.call.text).is_blocked
     /\ _is_listing_url(last.call.url)
     /\ NoProductSignal(last.call.html))
        => /\ last.out.verdict = "listing_empty"
           /\ last.out.product_count = 0


\* the elements BeautifulSoup finds in the pages the collaborators deliver
Soup(html) ==
    IF html = "" THEN <<>>
    ELSE IF html = HtmlProduct
    THEN <<[Tag("div") EXCEPT !.itemtype = "https://schema.org/Product",
                              !.string = "ring"]>>
    ELSE <<Tag("p")>>

\* a fetch_url call whose fetch delivered a page holding a microdata Product
\* item, without a classification field
FetchUnclassified(url) ==
    /\ AtCall("fetch_url")
    /\ url = Get(Head(tool_calls).args, "url", "")
    /\ last'.call = Head(tool_calls)
    /\ "fetch" \in Range(last'.out.io)
    /\ last'.out = ExecFetch(Head(tool_calls).args, fetched_urls,
                             max_pages_fetched, cache,
                             UnclassifiedPage(200, url, HtmlProduct), EmptyDict)

\* C23: when the fetch result carries no classification, the executor
\* classifies the returned html, text and URL itself and gates the URL on
\* that verdict: the tool result is verified exactly when the gate accepts
\* the classifier's own verdict, so a product page delivered without a
\* classification is verified.
C23_ClassifiesWhenAbsent ==
    [][\A url \in ReqUrls :
        FetchUnclassified(url) =>
            LET own == classify_page(Soup(HtmlProduct),
                                     extract_text(HtmlProduct), url)
            IN /\ own.verdict = "product"
               /\ last'.out.tool_result.is_verified
                    = _is_good_url(200, url, own.verdict)]_vars


\* the verified URLs that have the network authority of url
SameNetloc(V, url) == {v \in V : UrlParse(v).netloc = UrlParse(url).netloc}

\* C24: every line of the answer that is a URL whose normalized form is not
\* verified holds, after sanitizing, a verified URL of the same netloc if
\* there is one, and the marker "[URL removed - not verified]" otherwise;
\* never a verified URL of another netloc.
C24_UnverifiedReplaced ==
    pc = "sanitized" =>
        LET before == Split(last.call.answer, "\n")
            after == Split(last.out, "\n")
        IN \A i \in 1..Len(before) :
            (/\ urls_found(before[i]) = <<before[i]>>
             /\ Normalized(before[i]) \notin last.call.V)
                => /\ i <= Len(after)
                   /\ IF SameNetloc(last.call.V, Normalized(before[i])) # {}
                      THEN after[i] \in SameNetloc(last.call.V,
                                                   Normalized(before[i]))
                      ELSE after[i] = Marker


\* the tool calls of the round in progress: those of the last assistant
\* message of the history
RoundCalls ==
    LET idx == CHOOSE i \in 1..Len(messages) :
                    /\ messages[i].role = "assistant"
                    /\ \A j \in (i + 1)..Len(messages) :
                            messages[j].role # "assistant"
    IN messages[idx].tool_calls

\* C25: the tool calls of a round are executed one at a time in the order
\* the LLM emitted them, and the budget check of a call sees the fetched set
\* as the earlier calls of the round left it: when the call before it in the
\* round left len(fetched_urls) at max_pages_fetched or above, a fetch_url or
\* render_url call is refused (no cache or collaborator call, no success,
\* nothing fetched or verified).
C25_SequentialUnderBudget ==
    [][pc = "tool" =>
        LET round == RoundCalls
            done == Len(round) - Len(tool_calls)
            call == Head(tool_calls)
        IN /\ call = round[done + 1]
           /\ tool_calls' = SubSeq(round, done + 2, Len(round))
           /\ call.valid => last'.call = call
           /\ (/\ done > 0
               /\ round[done].valid
               /\ last.call = round[done]
               /\ Cardinality(last.out.fetched_urls) >= max_pages_fetched
               /\ call.valid
               /\ call.name \in {"fetch_url", "render_url"})
                => /\ last'.out.io = <<>>
                   /\ ~Get(last'.out.tool_result, "success", FALSE)
                   /\ fetched_urls' = fetched_urls
                   /\ verified_urls' = verified_urls
                   /\ cache' = cache]_vars

\* the first call of a round fetched a page and used up the budget of one
\* page, and the second call of the same round was refused for it
C25_SecondCallRefused ==
    /\ max_pages_fetched = 1
    /\ Len(debug_traces) = 2
    /\ debug_traces[1].tool = "fetch_url"
    /\ debug_traces[1].success
    /\ debug_traces[2].step = debug_traces[1].step
    /\ ~debug_traces[2].success
    /\ last.call.id = "call_2"
    /\ last.call.name = "fetch_url"
    /\ last.out.io = <<>>
    /\ last.out.tool_result.content = "Maximum pages fetched (1). Cannot fetch more."
    /\ Cardinality(fetched_urls) = 1


\* the answer holds the line "- <title>: <url>" for the verified entry
BulletFor(answer, entry) ==
    \E u \in {entry[1], DisplayUrl(entry[1], entry[2])} :
        Contains(answer, "- " \o entry[2].title \o ": " \o u \o "\n")

\* C26 (as stated): when run returns at the step limit, the answer is a
\* limit-reached marker followed by a bulleted list that has one entry, title
\* and URL, for every verified URL.
C26_StepLimitListsSources ==
    (pc = "done" /\ last.final.via = "step_limit") =>
        /\ Contains(Lower(result.answer), "step limit")
        /\ \A i \in 1..Len(last.final.verified_urls) :
                BulletFor(result.answer, last.final.verified_urls[i])

\* the bullets of the step-limit summary
RECURSIVE Bullets(_, _)
Bullets(sources, i) ==
    IF i > Len(sources) THEN ""
    ELSE "- " \o sources[i].title \o ": " \o sources[i].url \o "\n"
            \o Bullets(sources, i + 1)

\* C26: when the step limit is reached, the returned answer is the sanitized
\* form of: the note "[Note: Reached step limit] " followed by the content of
\* the last assistant message that has content, if there is one; otherwise,
\* if some URL is verified, "I found N verified source(s), but reached the
\* step limit. " and one bullet "- title: url" per verified entry; otherwise
\* a message that no verified source was found before the step limit. In
\* the bulleted case the sanitized answer still names the step limit and
\* holds the bullet of every entry whose title is not itself a URL.
C26_StepLimitAnswerShape ==
    [][(pc = "llm" /\ step >= max_steps) =>
        LET said == SelectSeq(messages,
                        LAMBDA msg : msg.role = "assistant" /\ msg.content # "")
            sources == _get_verified_sources_only(verified_urls)
            raw == IF Len(said) > 0
                   THEN "[Note: Reached step limit] " \o said[Len(said)].content
                   ELSE IF Len(sources) > 0
                   THEN "I found " \o ToString(Len(sources))
                          \o " verified source(s), but reached the step limit. "
                          \o "Here's what I gathered:\n\n" \o Bullets(sources, 1)
                   ELSE "I reached the step limit before finding any verified sources. Please try a different query or increase max_steps."
        IN /\ pc' = "done"
           /\ \E order \in Orders(DictKeys(verified_urls)) :
                result'.answer = _sanitize_output(raw, DictKeys(verified_urls),
                                                  order)
           /\ (Len(said) = 0 /\ Len(sources) > 0) =>
                /\ Contains(result'.answer, "reached the step limit")
                /\ \A i \in 1..Len(verified_urls) :
                        urls_found(verified_urls[i][2].title) = <<>>
                            => BulletFor(result'.answer, verified_urls[i])]_vars

\* run returned at the step limit with the bulleted summary of one verified
\* source
C26_BulletedSummary ==
    /\ pc = "done"
    /\ last.final.via = "step_limit"
    /\ Len(last.final.verified_urls) = 1
    /\ StartsWith(result.answer,
                  "I found 1 verified source(s), but reached the step limit. ")
    /\ BulletFor(result.answer, last.final.verified_urls[1])


\* the history holds, after the two opening messages, a user message that
\* asks for the final answer
AskedForFinalAnswer(msgs) ==
    \E i \in 3..Len(msgs) :
        /\ msgs[i].role = "user"
        /\ Contains(msgs[i].content, "Please provide your final answer")

ProductLikeLinks(html) == Cardinality({i \in 1..Len(html) : IsProductLink(html[i])})

\* the verdict and product_count the final table gives
FinalTable(n, listing, long) ==
    IF n > 0 /\ listing THEN <<"listing_with_products", n>>
    ELSE IF n > 0 THEN <<"product", n>>
    ELSE IF listing THEN <<"listing_empty", 0>>
    ELSE IF long THEN <<"product", 1>>
    ELSE <<"error", 0>>

\* a page with HTML that is classified neither generic nor blocked gets the
\* verdict of the final table, and empty HTML gets ERROR
FollowsFinalTable ==
    /\ (/\ pc = "done"
        /\ Len(last.call.html) > 0
        /\ last.out.verdict \notin {"generic", "blocked"})
            => <<last.out.verdict, last.out.product_count>>
                 = FinalTable(_detect_products(last.call.html, last.call.text,
                                               last.call.url).count,
                              _is_listing_url(last.call.url),
                              Len(last.call.text) > 500)
    /\ (pc = "done" /\ Len(last.call.html) = 0)
            => /\ last.out.verdict = "error"
               /\ last.out.reason = "No HTML content"

\* a listing-shaped page, neither generic nor blocked, with three product-like
\* links or more
ListingWithThreeLinks ==
    /\ pc = "done"
    /\ last.out.verdict \notin {"generic", "blocked"}
    /\ _is_listing_url(last.call.url)
    /\ ProductLikeLinks(last.call.html) >= 3

\* C28 (as stated): the verdict follows the final table, empty HTML gives
\* ERROR, and every listing-shaped page with at least 3 product-like links is
\* LISTING_WITH_PRODUCTS with product_count >= 3.
C28_TableAndThreeLinks ==
    /\ FollowsFinalTable
    /\ ListingWithThreeLinks
            => /\ last.out.verdict = "listing_with_products"
               /\ last.out.product_count >= 3

\* C28: the verdict follows the final table, empty HTML gives ERROR, and a
\* listing-shaped page with at least 3 product-like links is
\* LISTING_WITH_PRODUCTS, with product_count >= 3 when the page holds no
\* JSON-LD or microdata product and with the larger of the two schema counts
\* when it does.
C28_TableAndThreeLinksNoSchema ==
    /\ FollowsFinalTable
    /\ ListingWithThreeLinks
            => LET found == _detect_products(last.call.html, last.call.text,
                                             last.call.url)
               IN /\ last.out.verdict = "listing_with_products"
                  /\ IF found.json_ld_count = 0 /\ found.microdata_count = 0
                     THEN last.out.product_count = ProductLikeLinks(last.call.html)
                     ELSE last.out.product_count
                            \in {found.json_ld_count, found.microdata_count}

\* the page of test_listing_with_products: three product links at a category
\* URL, classified as a listing with 3 products
C28_ThreeLinksListed ==
    /\ pc = "done"
    /\ last.call.url = "http://a/category/rings"
    /\ last.call.html = <<ProductLink("1"), ProductLink("2"), ProductLink("3")>>
    /\ last.out.verdict = "listing_with_products"
    /\ last.out.product_count = 3


\* the query string has one of the keys q, search, category, filter
HasListingQueryKey(url) ==
    \E key \in {"q", "search", "category", "filter"} :
        \/ StartsWith(Lower(UrlParse(url).query), key \o "=")
        \/ Contains(Lower(UrlParse(url).query), "&" \o key \o "=")

\* the path holds one of the path indicators of a listing
HasListingPath(url) ==
    ContainsAny(Lower(UrlParse(url).path),
                {"/search", "/category", "/catalog", "/list", "/shop/",
                 "/products", "/items"})

\* C29: a URL whose path contains a listing indicator, or whose query string
\* has one of the keys q, search, category, filter, is listing-shaped:
\* _is_listing_url holds for it, and a page at it that is neither generic nor
\* blocked is classified LISTING_WITH_PRODUCTS or LISTING_EMPTY.
C29_ListingShapedUrl ==
    (/\ pc = "done"
     /\ Len(last.call.html) > 0
     /\ HasListingPath(last.call.url) \/ HasListingQueryKey(last.call.url))
        => /\ _is_listing_url(last.call.url)
           /\ last.out.verdict \in {"listing_with_products", "listing_empty",
                                    "generic", "blocked"}


\* the path segment after position k starts with a digit
DigitAfter(segs, k) ==
    /\ k + 1 <= Len(segs)
    /\ Len(segs[k + 1]) > 0
    /\ Ch(segs[k + 1], 1) \in CharsOf(Digits)

\* the path segment after position k is not empty
SlugAfter(segs, k) == k + 1 <= Len(segs) /\ Len(segs[k + 1]) > 0

\* the path is on the product-URL allowlist: /p/<slug>, /products/<slug>,
\* /item/<id>, /detail/<id>, /product/<slug>/<id>, an auto_ page, or a last
\* segment of six digits or more
OnAllowlist(path) ==
    LET segs == Split(path, "/")
        last_seg == segs[Len(segs)]
    IN \/ \E k \in 2..Len(segs) :
            \/ segs[k] \in {"p", "products"} /\ SlugAfter(segs, k)
            \/ segs[k] \in {"item", "detail"} /\ DigitAfter(segs, k)
            \/ segs[k] = "product" /\ SlugAfter(segs, k) /\ DigitAfter(segs, k + 1)
            \/ /\ StartsWith(segs[k], "auto_")
               /\ Len(segs[k]) > 5
               /\ k + 1 <= Len(segs)
               /\ StartsWithAt(last_seg, Len(last_seg) - 4, ".html")
       \/ /\ Len(segs) >= 2
          /\ StartsWith(last_seg, "auto_")
          /\ Len(last_seg) > 10
          /\ StartsWithAt(last_seg, Len(last_seg) - 4, ".html")
       \/ /\ Len(segs) >= 2
          /\ Len(last_seg) >= 6
          /\ \A n \in 1..Len(last_seg) : Ch(last_seg, n) \in CharsOf(Digits)

\* the path is on the listing blocklist: it holds /search, /category,
\* /catalog, /filter, /all, /list or /results, or ends with /car/ and one or
\* two segments
OnBlocklist(path) ==
    LET segs == Split(path, "/") IN
    \/ \E word \in {"/search", "/category", "/catalog", "/filter", "/all",
                    "/list", "/results"} : Find(path, word) # 0
    \/ \E k \in 2..Len(segs) :
        /\ segs[k] = "car"
        /\ Len(segs) - k \in {1, 2}
        /\ \A n \in (k + 1)..Len(segs) : Len(segs[n]) > 0

\* the page without the container classes around its anchors
OutsideContainers(html) ==
    [i \in 1..Len(html) |-> [html[i] EXCEPT !.parent_class = ""]]

\* C30: every list of candidate product links returned for a page has at most
\* 50 entries; each link has the network authority of the page URL, is on the
\* product-URL allowlist and not on the listing blocklist; no two links are
\* equal after canonicalization; and the list is the same when no anchor lies
\* in a product container.
C30_CandidateLinks ==
    (pc = "done" /\ "product_candidate_links" \in DOMAIN last.out) =>
        LET links == last.out.product_candidate_links IN
        /\ Len(links) <= 50
        /\ \A i \in 1..Len(links) :
            /\ Lower(UrlParse(links[i]).netloc)
                 = Lower(UrlParse(last.call.url).netloc)
            /\ OnAllowlist(Lower(UrlParse(links[i]).path))
            /\ ~OnBlocklist(Lower(UrlParse(links[i]).path))
            /\ \A j \in 1..Len(links) :
                i # j => clean_url(links[i], TRUE) # clean_url(links[j], TRUE)
        /\ links = classify_page(OutsideContainers(last.call.html),
                                 last.call.text,
                                 last.call.url).product_candidate_links

\* a listing page whose two anchors lead to the same product, one outside a
\* product container and one inside with a tracking parameter, returned one
\* candidate link
C30_OneLinkForTwoAnchors ==
    /\ pc = "done"
    /\ last.call.url = "http://a/products"
    /\ last.call.html = <<Anchor("/p/ring", ""),
                          Anchor("/p/ring?utm_source=x", "product-card")>>
    /\ last.out.verdict = "listing_with_products"
    /\ last.out.product_candidate_links = <<"http://a/p/ring">>

(***************************************************************************)
(* BraveClient.search applied on its own                                   *)
(***************************************************************************)

\* for attempt in range(max_retries)
max_retries == 3

\* seconds slept after the first rate-limited response
base_delay == 1

\* the result limit of the search API
MaxCount == 20

\* count = min(count, 20)
SentCount(count) == IF count < MaxCount THEN count ELSE MaxCount

\* delay = base_delay * (2 ** attempt)
Backoff(attempt) == base_delay * (2 ^ attempt)

\* a rate-limited response is answered by a sleep and another request
RetriesOnError(status, attempt) ==
    status >= 400 /\ attempt < max_retries - 1

\* response.status_code == 429 and attempt < max_retries - 1
Retries(status, attempt) ==
    status = 429 /\ attempt < max_retries - 1

\* response.raise_for_status() raises: always for 4xx and 5xx; for a
\* redirect it depends on the installed httpx, which nothing pins
RaisesForStatus(response) ==
    \/ response.status >= 400
    \/ response.status >= 300 /\ response.strict

\* the bodies response.json() may meet; one of them is not JSON
SearchItem == [title |-> "Ring", url |-> "http://a/p", description |-> "a ring"]
NotJson == [json |-> FALSE, data |-> EmptyDict]
SearchBodies ==
    {NotJson}
    \cup {[json |-> TRUE, data |-> data] :
            data \in {EmptyDict,
                      [web |-> EmptyDict],
                      [web |-> [results |-> <<>>]],
                      [web |-> [results |-> <<SearchItem>>]],
                      [web |-> [results |-> <<SearchItem,
                                              [url |-> "http://b/p"]>>]]}}

\* what self.client.get("/web/search", params=params) may do: raise, as on
\* a timeout after 30 seconds, or return a response
SearchResponses ==
    {[raises |-> TRUE, status |-> 0, strict |-> FALSE, body |-> NotJson]}
    \cup {[raises |-> FALSE, status |-> status, strict |-> strict,
           body |-> body] :
            status \in {200, 301, 404, 429, 500},
            strict \in BOOLEAN, body \in SearchBodies}

\* {title, url, snippet} of one item of data["web"]["results"]
NormalizedResult(item) ==
    [title |-> IF "title" \in DOMAIN item THEN item.title ELSE "",
     url |-> IF "url" \in DOMAIN item THEN item.url ELSE "",
     snippet |-> IF "description" \in DOMAIN item THEN item.description
                 ELSE ""]

\* the results list built from data = response.json()
NormalizedResults(data) ==
    IF "web" \in DOMAIN data /\ "results" \in DOMAIN data.web
    THEN [i \in 1..Len(data.web.results) |->
            NormalizedResult(data.web.results[i])]
    ELSE <<>>

\* search is entered with an API key or without one; last.sent lists the
\* status codes of the responses received, last.slept the delays slept and
\* last.out, read once pc is "done", the exception raised or the list returned
InitSearch ==
    /\ Parked
    /\ pc = "search"
    /\ \E api_key \in BOOLEAN, query \in {"ring", ""}, count \in {5, 25} :
        last = [api_key |-> api_key,
                call |-> [query |-> query, count |-> count],
                params |-> [q |-> "", count |-> 0], attempt |-> 0,
                requests |-> 0, sent |-> <<>>, slept |-> <<>>,
                out |-> [raises |-> "", results |-> <<>>]]

\* the API-key test and the parameters of the request
SearchEnter ==
    /\ pc = "search"
    /\ IF ~last.api_key
       THEN /\ pc' = "done"
            /\ last' = [last EXCEPT
                          !.out = [raises |-> "ValueError", results |-> <<>>]]
       ELSE /\ pc' = "get"
            /\ last' = [last EXCEPT
                          !.params = [q |-> last.call.query,
                                      count |-> SentCount(last.call.count)]]
    /\ UNCHANGED ParkedVars

\* what the loop body does with one response
AfterResponse(response) ==
    IF response.raises
    THEN /\ pc' = "done"
         /\ last' = [last EXCEPT
                       !.requests = @ + 1,
                       !.out = [raises |-> "Exception", results |-> <<>>]]
    ELSE IF Retries(response.status, last.attempt)
    THEN /\ pc' = "sleep"
         /\ last' = [last EXCEPT
                       !.requests = @ + 1,
                       !.sent = Append(@, response.status)]
    ELSE IF RaisesForStatus(response)
    THEN /\ pc' = "done"
         /\ last' = [last EXCEPT
                       !.requests = @ + 1,
                       !.sent = Append(@, response.status),
                       !.out = [raises |-> "HTTPStatusError",
                                results |-> <<>>]]
    ELSE IF ~response.body.json
    THEN /\ pc' = "done"
         /\ last' = [last EXCEPT
                       !.requests = @ + 1,
                       !.sent = Append(@, response.status),
                       !.out = [raises |-> "Exception", results |-> <<>>]]
    ELSE /\ pc' = "done"
         /\ last' = [last EXCEPT
                       !.requests = @ + 1,
                       !.sent = Append(@, response.status),
                       !.out = [raises |-> "",
                                results |->
                                  NormalizedResults(response.body.data)]]

\* one pass of the loop: the request is sent and its response handled up to
\* the sleep, the raise or the return
SearchGet ==
    /\ pc = "get"
    /\ last.attempt < max_retries
    /\ \E response \in SearchResponses : AfterResponse(response)
    /\ UNCHANGED ParkedVars

\* time.sleep(delay) returns and the loop continues
SearchSleep ==
    /\ pc = "sleep"
    /\ pc' = "get"
    /\ last' = [last EXCEPT
                  !.slept = Append(@, Backoff(last.attempt)),
                  !.attempt = @ + 1]
    /\ UNCHANGED ParkedVars

NextSearch == SearchEnter \/ SearchGet \/ SearchSleep

SpecSearch == InitSearch /\ [][NextSearch]_vars

\* search as synchronous code: the request returns or times out and the
\* sleep ends
SpecSearchLive == SpecSearch /\ WF_vars(NextSearch)

\* C31: one call of search sends at most three requests; a request other
\* than the first follows a 429 response and a sleep, the sleeps last 1 and
\* then 2 seconds; the third 429 in a row ends the call with an exception,
\* as does every other error status, without another request; and the call
\* ends
SearchBounded ==
    /\ last.requests <= 3
    /\ Len(last.sent) <= last.requests
    /\ \A i \in 1..Len(last.sent) - 1 : last.sent[i] = 429
    /\ \A i \in 1..Len(last.slept) : last.slept[i] = 2 ^ (i - 1)
    /\ Len(last.slept) <= 2
    /\ pc = "get" => last.requests = Len(last.slept)
    /\ pc = "sleep" => /\ last.requests = Len(last.slept) + 1
                       /\ last.sent[Len(last.sent)] = 429
    /\ pc = "done" /\ last.sent # <<>> =>
        /\ last.requests = Len(last.slept) + 1
        /\ last.sent[Len(last.sent)] >= 400 => last.out.raises # ""
    /\ pc = "done" /\ last.sent = <<429, 429, 429>> =>
        /\ last.slept = <<1, 2>>
        /\ last.out.raises = "HTTPStatusError"

C31_SearchRetriesBounded == []SearchBounded /\ <>(pc = "done")

\* three rate-limited responses in a row ended the call
C31_ThirdRateLimitRaises ==
    /\ pc = "done"
    /\ last.sent = <<429, 429, 429>>
    /\ last.slept = <<1, 2>>
    /\ last.out.raises = "HTTPStatusError"

(***************************************************************************)
(* two calls of run on one AgentLoop                                       *)
(***************************************************************************)

\* the locals of the call of run that is executing, with the observations
\* kept for it
Locals(id) ==
    [run |-> id, pc |-> pc, max_steps |-> max_steps,
     max_pages_fetched |-> max_pages_fetched, step |-> step,
     messages |-> messages, tool_calls |-> tool_calls,
     attempted_urls |-> attempted_urls, verified_urls |-> verified_urls,
     rejected_urls |-> rejected_urls, fetched_urls |-> fetched_urls,
     debug_traces |-> debug_traces, result |-> result, last |-> last,
     emitted |-> emitted]

\* the locals of a call of run at its entry: lines 53-107
Entered(id, steps, pages) ==
    [run |-> id, pc |-> "llm", max_steps |-> steps,
     max_pages_fetched |-> pages, step |-> 0,
     messages |-> <<[role |-> "system", content |-> SystemPrompt],
                    [role |-> "user", content |-> UserPrompt]>>,
     tool_calls |-> <<>>, attempted_urls |-> {}, verified_urls |-> <<>>,
     rejected_urls |-> EmptyDict, fetched_urls |-> {}, debug_traces |-> <<>>,
     result |-> EmptyDict,
     last |-> [call |-> NoCall,
               out |-> Out(EmptyDict, {}, EmptyDict, <<>>, NoCheck),
               final |-> NotReturned],
     emitted |-> MaxToolCalls - 1]

\* two threads have entered run on the AgentLoop that get_agent hands to
\* every request, each with one step and one tool call to make; the first
\* executes, self.cache is empty
InitTwoRuns ==
    /\ \E pages \in 0..1 :
        /\ pc = "llm"
        /\ max_steps = 1
        /\ max_pages_fetched = pages
        /\ step = 0
        /\ messages = Entered(1, 1, pages).messages
        /\ tool_calls = <<>>
        /\ attempted_urls = {}
        /\ verified_urls = <<>>
        /\ rejected_urls = EmptyDict
        /\ fetched_urls = {}
        /\ debug_traces = <<>>
        /\ result = EmptyDict
        /\ last = Entered(1, 1, pages).last
        /\ emitted = MaxToolCalls - 1
    /\ cache = EmptyDict
    /\ \E pages \in 0..1 : suspended = Entered(2, 1, pages)

\* the thread switch of an AgentLoop that kept the fetched set on self
SwitchSharingFetched ==
    /\ suspended # NoRun
    /\ suspended' = Locals(3 - suspended.run)
    /\ pc' = suspended.pc
    /\ max_steps' = suspended.max_steps
    /\ max_pages_fetched' = suspended.max_pages_fetched
    /\ step' = suspended.step
    /\ messages' = suspended.messages
    /\ tool_calls' = suspended.tool_calls
    /\ attempted_urls' = suspended.attempted_urls
    /\ verified_urls' = suspended.verified_urls
    /\ rejected_urls' = suspended.rejected_urls
    /\ debug_traces' = suspended.debug_traces
    /\ result' = suspended.result
    /\ last' = suspended.last
    /\ emitted' = suspended.emitted
    /\ UNCHANGED <<cache, fetched_urls>>

\* the interpreter switches threads: the executing call keeps its locals,
\* the other call goes on with its own, and self.cache is the same object
\* for both
Switch ==
    /\ suspended # NoRun
    /\ suspended' = Locals(3 - suspended.run)
    /\ pc' = suspended.pc
    /\ max_steps' = suspended.max_steps
    /\ max_pages_fetched' = suspended.max_pages_fetched
    /\ step' = suspended.step
    /\ messages' = suspended.messages
    /\ tool_calls' = suspended.tool_calls
    /\ attempted_urls' = suspended.attempted_urls
    /\ verified_urls' = suspended.verified_urls
    /\ rejected_urls' = suspended.rejected_urls
    /\ fetched_urls' = suspended.fetched_urls
    /\ debug_traces' = suspended.debug_traces
    /\ result' = suspended.result
    /\ last' = suspended.last
    /\ emitted' = suspended.emitted
    /\ UNCHANGED cache

NextTwoRuns == Next \/ Switch

SpecTwoRuns == InitTwoRuns /\ [][NextTwoRuns]_vars

\* the URLs the tool calls executed by one call of run asked for
AskedUrls(locals) ==
    {locals.debug_traces[i].args.url :
        i \in {j \in 1..Len(locals.debug_traces) :
                 "url" \in DOMAIN locals.debug_traces[j].args}}

\* the provenance of one call of run comes from the tool calls it executed
OwnProvenance(locals) ==
    /\ Len(SelectSeq(locals.messages, LAMBDA msg : msg.role = "tool"))
         = Len(locals.debug_traces)
    /\ locals.attempted_urls \cup locals.fetched_urls
         \subseteq AskedUrls(locals) \cup {Other(u) : u \in AskedUrls(locals)}
    /\ Cardinality(locals.attempted_urls) <= Len(locals.debug_traces)
    /\ Cardinality(locals.fetched_urls) <= Len(locals.debug_traces)
    /\ DictKeys(locals.verified_urls) \subseteq locals.attempted_urls
    /\ DOMAIN locals.rejected_urls \subseteq locals.attempted_urls

\* a step of the executing call leaves the locals of the other call as they
\* are, and a thread switch hands each call the locals it had
LocalsKept ==
    \/ suspended' = suspended
    \/ /\ suspended' = Locals(3 - suspended.run)
       /\ [Locals(0)' EXCEPT !.run = 0] = [suspended EXCEPT !.run = 0]

\* C32: of two calls of run executing on one AgentLoop, each has its own
\* messages, attempted, verified, rejected and fetched URLs and debug trace:
\* a step of one call leaves those of the other unchanged, and what each
\* holds comes from the tool calls it executed itself
C32_RunsShareOnlyCache ==
    /\ [](OwnProvenance(Locals(0)) /\ OwnProvenance(suspended))
    /\ [][LocalsKept]_vars

\* the second call is answered from self.cache with the page the first call
\* fetched and stored, and counts it against its own budget only
C32_CacheHitFromOtherRun ==
    /\ suspended.run = 1
    /\ suspended.fetched_urls # {}
    /\ suspended.pc = "done"
    /\ pc = "llm"
    /\ last.call.name = "fetch_url"
    /\ last.out.io = <<"cache.get_fetch">>
    /\ IsVerified(last.out.tool_result)
    /\ fetched_urls = {last.out.tool_result.url}
    /\ Len(debug_traces) = 1

\* C33: once run has returned, no URL is a key of both verified_urls and
\* rejected_urls
C33_VerifiedOrRejected ==
    pc = "done" => DictKeys(verified_urls) \cap DOMAIN rejected_urls = {}

(***************************************************************************)
(* run with one round of up to three page calls                            *)
(***************************************************************************)

\* a third URL the LLM may ask for
U3 == "http://a/p/s"

\* the LLM emits at most MaxRoundCalls calls in the round
MaxRoundCalls == 3

\* the page calls of the round
RoundCallChoices ==
    {[name |-> "render_url", valid |-> TRUE, args |-> [url |-> U1]],
     [name |-> "fetch_url", valid |-> TRUE, args |-> [url |-> U1]],
     [name |-> "fetch_url", valid |-> TRUE, args |-> [url |-> U3]]}

\* the response carries up to MaxRoundCalls page calls: lines 141-144
LLMPageCalls ==
    /\ pc = "llm"
    /\ step < max_steps
    /\ emitted = 0
    /\ \E calls \in SeqsUpTo(RoundCallChoices, MaxRoundCalls) :
        LET withIds == [i \in 1..Len(calls) |->
                            Put(calls[i], "id", CallId(emitted + i))]
        IN /\ messages' = Append(messages,
                            [role |-> "assistant", content |-> "",
                             tool_calls |-> withIds])
           /\ tool_calls' = withIds
           /\ emitted' = emitted + Len(calls)
    /\ pc' = "tool"
    /\ UNCHANGED <<suspended, max_steps, max_pages_fetched, step, attempted_urls,
                   verified_urls, rejected_urls, fetched_urls, debug_traces,
                   cache, result, last>>

\* run is called with one step and a budget of MaxPages pages
InitPageCalls == Init /\ max_steps = 1 /\ max_pages_fetched = MaxPages

NextPageCalls ==
    \/ LLMFails
    \/ LLMFinal
    \/ LLMPageCalls
    \/ FetchUrl
    \/ RenderUrl
    \/ StepLimit

SpecPageCalls == InitPageCalls /\ [][NextPageCalls]_vars

\* C34: verified_urls never holds more than max_pages_fetched entries, and
\* the sources list run returns is no longer than that
C34_VerifiedWithinBudget ==
    /\ Len(verified_urls) <= max_pages_fetched
    /\ pc = "done" => Len(result.sources) <= max_pages_fetched

\* the positions of the budget messages in the history
BudgetMessageAt ==
    {i \in 3..Len(messages) : messages[i].role = "user"}

\* C35: no tool message follows a budget message without an assistant turn
\* in between, so the tool messages of a round follow their assistant turn
\* directly and the round holds at most one budget message, after its last
\* tool message
C35_ToolMessagesContiguous ==
    \A i \in BudgetMessageAt :
        i < Len(messages) => messages[i + 1].role = "assistant"

\* the step executes a fetch_url or render_url call
PageCallStep ==
    /\ pc = "tool"
    /\ Head(tool_calls).valid
    /\ Head(tool_calls).name \in {"fetch_url", "render_url"}
    /\ last'.call = Head(tool_calls)

\* the cache keys the step wrote
Written == {k \in DOMAIN cache' : k \notin DOMAIN cache \/ cache'[k] # cache[k]}

\* what a page call that did not verify its page leaves behind
RejectedLeaves(out) ==
    /\ fetched_urls' = fetched_urls
    /\ \A k \in Written : HasPayload(cache'[k])
    /\ out.checked.any /\ ~out.checked.payload => cache' = cache

\* C36: a fetch_url or render_url call whose page is rejected leaves the
\* fetched set as it is and stores no page without html and text; when the
\* page it got has neither, the cache stays as it is. So a call that adds to
\* the fetched set verified its page
C36_RejectedPageCostsNothing ==
    [][PageCallStep /\ ~IsVerified(last'.out.tool_result)
        => RejectedLeaves(last'.out)]_vars

\* a render_url call got nothing from the browser: the URL is rejected, the
\* fetched set and the cache are empty as before
C36_EmptyRenderRejected ==
    /\ last.call.name = "render_url"
    /\ last.out.checked.any
    /\ ~last.out.checked.payload
    /\ last.out.io = <<"cache.get_render", "render">>
    /\ last.out.tool_result.url \in DOMAIN rejected_urls
    /\ Len(debug_traces) = 1
    /\ fetched_urls = {}
    /\ cache = EmptyDict

\* C37: classify_page reports a positive product_count exactly with the
\* verdicts PRODUCT and LISTING_WITH_PRODUCTS, and candidate links with no
\* verdict other than LISTING_WITH_PRODUCTS
C37_CountAndLinksFollowVerdict ==
    pc = "done" =>
        /\ last.out.product_count > 0
             <=> last.out.verdict \in {"product", "listing_with_products"}
        /\ Len(Get(last.out, "product_candidate_links", <<>>)) > 0
             => last.out.verdict = "listing_with_products"

\* a page without product markup on a URL that is no listing passes as a
\* product on the length of its text alone, counted as one product
C37_AssumedSingleProduct ==
    /\ pc = "done"
    /\ _detect_products(last.call.html, last.call.text, last.call.url).count = 0
    /\ last.out.verdict = "product"
    /\ last.out.product_count = 1
    /\ last.out.product_candidate_links = <<>>

\* C38: a value returned by get_search, get_fetch or get_render was stored
\* by the set method of the same kind under the same identifier
C38_SameClassAndIdentifier ==
    last.call.op = "get" /\ last.out # None =>
        \E i \in 1..Len(last.sets) :
            /\ last.sets[i].prefix = last.call.prefix
            /\ last.sets[i].identifier = last.call.identifier
            /\ last.sets[i].value = last.out
====
